---- MODULE Spec2Model ----
(***************************************************************************)
(* Agent runtime of the-oracle: Assistant.process_message with its         *)
(* fallback / recursion-limit policy, ProcessingAgent.process_transcription *)
(* and the checkpointed thread state they run against.                      *)
(*                                                                          *)
(* A state (a Python dict / TypedDict) is a function from field names to    *)
(* values whose DOMAIN is the set of keys present; Optional values are the  *)
(* strings "None" or an identifier, lists are sequences, messages records.  *)
(* The checkpoint store is the durable Redis store: it outlives the         *)
(* process, so a thread starts either without a checkpoint or holding the   *)
(* checkpoint an earlier transcription-processing run left there.           *)
(* One top-level call runs at a time (callers serialise per thread).        *)
(*                                                                          *)
(* Spec is the agent runtime.  ReducerSpec applies the state reducers,      *)
(* CacheSpec interleaves callers of _get_or_create_compiled_app, and        *)
(* MemorySpec runs the MemoryManager calls (read, reset, listing) against   *)
(* a store of checkpoints whose values are JSON as the serializer wrote it. *)
(* ConfigSpec builds thread configs, DbSpec runs results_storage_node and   *)
(* handle_persistence against the relational tables, WhisperSpec runs the   *)
(* WhisperTranscriptionTool, and RaceSpec interleaves two process_message   *)
(* calls for one thread.                                                    *)
(***************************************************************************)
EXTENDS Integers, Sequences, FiniteSets, TLC

(* ------------------------------ bounds -------------------------------- *)
MaxTurns == 2
MaxDepth == 2

None == "None"

VARIABLES
    store,            \* thread config -> latest checkpointed state values
    recursion_limit,  \* configured bound on supersteps of one graph run
    compiled,         \* BaseAgent._compiled of the Assistant
    compiled_apps_cache,  \* Assistant._compiled_apps_cache: key -> app
    compiles,         \* how often the Assistant compiled each graph
    _initialized,     \* RedisCheckpointer._initialized (one per process)
    connection_checks, \* connection checks RedisCheckpointer.initialize ran
    pc,               \* position of the running call
    depth,            \* nesting depth of process_message (0 = top level)
    thread_id, user_input, transcription_data,   \* arguments
    transcription_id,                            \* argument of process_transcription
    fallback_used, fallback_state,               \* arguments
    is_new_thread, initial_state, state,         \* locals of process_message
    node, steps,      \* next node and supersteps done of the graph run
    fb_message,       \* seed message of the fallback run in progress
    outcome, reply,   \* what the top-level call gave its caller
    turns,            \* top-level calls started so far
    default_runs, fallback_runs,   \* graph executions in this top-level call
    recursion_hit, main_raised,    \* what happened to the default graph
    had_checkpoint, pre_state,     \* the thread's checkpoint when the call began
    lookup_result,    \* what get_thread_state returned
    call_kind,        \* which entry point the running call came through
    tp_context,       \* names of the trace messages the last touchpoint saw
    p_compiled,       \* BaseAgent._compiled of the ProcessingAgent
    p_state, p_result, \* ProcessingAgent: running state, returned result
    failed_stages,    \* agent names of the stages that reported an error
    stage_raised,     \* a stage raised out of the processing graph
    outputs,          \* the partial updates the executor merged in this call
    trace,            \* nodes of the default graph started in this call
    unmapped_hit,     \* a conditional edge got a target outside its map
    racers,           \* concurrent callers and where each of them is
    checkpoints,      \* every checkpoint in the store, oldest first
    mm_call,          \* the last MemoryManager call: arguments and result
    reset_threads,    \* threads reset and not written to since
    db,               \* committed rows of the relational database
    db_call,          \* the last results_storage_node or handle_persistence call
    wt_call           \* the last WhisperTranscriptionTool call

vars == << store, recursion_limit, compiled, compiled_apps_cache, compiles,
           pc, depth, thread_id, user_input, transcription_data,
           transcription_id, fallback_used, fallback_state, is_new_thread,
           initial_state, state, node, steps, fb_message, outcome, reply,
           turns, default_runs, fallback_runs, recursion_hit, main_raised,
           had_checkpoint, pre_state, lookup_result, call_kind, tp_context,
           p_compiled, p_state, p_result, failed_stages, stage_raised,
           outputs, trace, unmapped_hit, _initialized, connection_checks,
           racers, checkpoints, mm_call, reset_threads, db, db_call, wt_call >>

(* ------------------------- dicts and messages -------------------------- *)
EmptyState == [k \in {} |-> ""]

Has(s, k) == k \in DOMAIN s

Get(s, k, d) == IF k \in DOMAIN s THEN s[k] ELSE d

\* Python truthiness of a dict
Truthy(s) == DOMAIN s # {}

HMessage(name, content) == [role |-> "user", name |-> name, content |-> content]

SMessage(name, content) == [role |-> "system", name |-> name, content |-> content]

Last(seq) == seq[Len(seq)]

\* seq[-5:]
Last5(seq) == IF Len(seq) <= 5 THEN seq ELSE SubSeq(seq, Len(seq) - 4, Len(seq))

Names(seq) == [i \in 1..Len(seq) |-> seq[i].name]

(* --------------------------- state schemas ----------------------------- *)
\* operator.add channels
AppendFields == {"chat_history", "messages"}

\* operators.reset_when_empty channels
ResetFields == {"unhandled_tasks", "data_for_the_task"}

StateChannels ==
    {"thread_id", "chat_history", "messages", "next", "current_intention",
     "current_inquiry", "current_task", "unhandled_tasks",
     "data_for_the_task", "transcription_data", "transcription_analysis",
     "extracted_insights"} \cup {"current_tasks"}

\* reset_when_empty without the reset
reset_when_empty_NoReset(left, right) == left \o right

reset_when_empty(left, right) == IF right = <<>> THEN <<>> ELSE left \o right

\* the reducer with the operands of operator.add swapped
Reduce_Swapped(k, old, new) ==
    IF k \in AppendFields THEN new \o old
    ELSE IF k \in ResetFields THEN reset_when_empty(old, new)
    ELSE new

\* the reducer the schema attaches to a field
Reduce(k, old, new) ==
    IF k \in AppendFields THEN old \o new
    ELSE IF k \in ResetFields THEN reset_when_empty(old, new)
    ELSE new

\* the merge nulling every field the update does not mention
ApplyUpdate_Nulling(s, upd, channels) ==
    [k \in DOMAIN s \cup (DOMAIN upd \cap channels) |->
        IF k \in DOMAIN upd \cap channels
        THEN Reduce(k, Get(s, k, <<>>), upd[k])
        ELSE "None"]

\* merge of a partial update (graph input or node output) into the state:
\* keys that are not channels of the schema are ignored, the others go
\* through the field's reducer, unmentioned fields are left untouched
ApplyUpdate(s, upd, channels) ==
    [k \in DOMAIN s \cup (DOMAIN upd \cap channels) |->
        IF k \in DOMAIN upd \cap channels
        THEN Reduce(k, Get(s, k, <<>>), upd[k])
        ELSE s[k]]

\* what a node reads: the stored values; list channels with a reducer read
\* as [] when never written, any other missing key is a KeyError
NodeView(s, channels) ==
    s @@ [k \in (AppendFields \cup ResetFields) \cap channels |-> <<>>]

(* --------------------------- MemoryManager ----------------------------- *)
\* create_thread_config without a checkpoint_id: the address of a lineage
create_thread_config(t, checkpoint_ns) ==
    [thread_id |-> t, checkpoint_ns |-> checkpoint_ns]

ThreadConfigs ==
    {create_thread_config(t, ns) : t \in {"t1"}, ns \in {"", "fallback"}}

\* `create_thread_config(thread_id=thread_id)` of process_message and
\* process_transcription: the default namespace
thread_config(t) == create_thread_config(t, "")

\* the fallback run kept in a namespace of its own
fallback_thread_config_Isolated(t) == create_thread_config(t, "fallback")

\* `create_thread_config(thread_id=thread_id)` of
\* _process_with_fallback_graph
fallback_thread_config(t) == create_thread_config(t, "")

\* get_thread_state: the stored values, or {} when nothing is stored and
\* also when the read failed (the exception is logged and swallowed)
get_thread_state(t, read_ok) ==
    IF read_ok THEN store[thread_config(t)] ELSE EmptyState

(* ----------------------------- workflows ------------------------------- *)
\* get_initial_state seeding the manager instead of the entry node and
\* forgetting the user message
get_initial_state_WrongSeed(t, u, td) ==
    [thread_id |-> t,
     chat_history |-> <<>>,
     messages |-> <<>>,
     current_intention |-> "greet",
     current_inquiry |-> "",
     current_tasks |-> <<>>,
     data_for_the_task |-> <<>>,
     transcription_data |-> td.data,
     transcription_analysis |-> td.analysis,
     extracted_insights |-> td.insights,
     next |-> "manager"]

get_initial_state(t, u, td) ==
    [thread_id |-> t,
     chat_history |-> << HMessage("Human", u) >>,
     messages |-> <<>>,
     current_intention |-> "greet",
     current_inquiry |-> "",
     current_tasks |-> <<>>,
     data_for_the_task |-> <<>>,
     transcription_data |-> td.data,
     transcription_analysis |-> td.analysis,
     extracted_insights |-> td.insights,
     next |-> "intent_seeker"]

_prepare_initial_state(t, u, td, new) ==
    IF new THEN get_initial_state(t, u, td)
    ELSE [chat_history |-> << HMessage("Human", u) >>,
          unhandled_tasks |-> <<>>,
          data_for_the_task |-> <<>>]

\* the guard with the state test inverted
TakesFallbackState_Inverted(used, fstate) == used /\ ~Truthy(fstate)

\* `if (fallback_used and fallback_state)` of process_message
TakesFallbackState(used, fstate) == used /\ Truthy(fstate)

\* touchpoint_node reads current_inquiry, data_for_the_task, chat_history
\* and messages; a missing key raises KeyError
TouchpointCanRead(s) ==
    LET v == NodeView(s, StateChannels)
    IN  /\ Has(v, "current_inquiry")
        /\ Has(v, "data_for_the_task")
        /\ Has(v, "chat_history")
        /\ Has(v, "messages")

touchpoint_node(answer) == [chat_history |-> << SMessage("Touchpoint", answer) >>]

intent_seeker_node(intention, inquiry) ==
    [current_intention |-> intention, current_inquiry |-> inquiry]

\* plan generation.  The node wired by workflows.py is
\* nodes.conversation.manager_node, whose file is not among the sources;
\* its predecessor nodes/manager.py returns the plan as unhandled_tasks.
\* The plan is modelled in current_tasks, the field the router fans out.
manager_node(tasks) == [current_tasks |-> tasks]

\* the reply taken from the first message and counting one too few
ProcessedMessage_FirstMessage(s, t, used) ==
    [response |-> s["chat_history"][1].content,
     thread_id |-> t,
     memory_enabled |-> TRUE,
     fallback_used |-> used,
     message_count |-> Len(s["chat_history"]) - 1]

\* ProcessedMessage built from the final state
ProcessedMessage(s, t, used) ==
    [response |-> Last(s["chat_history"]).content,
     thread_id |-> t,
     memory_enabled |-> TRUE,
     fallback_used |-> used,
     message_count |-> Len(s["chat_history"])]

GeneralFallback == SMessage("GeneralFallback", "something unexpected happened")

RecursionFallback == SMessage("RecursionFallback", "became too complex")

\* nothing compiled yet
NoCompiles == [default |-> 0, fallback |-> 0, prewarm |-> 0]

NoReply == [response |-> "", thread_id |-> "", memory_enabled |-> FALSE,
            fallback_used |-> FALSE, message_count |-> 0]

NoMessage == SMessage("", "")

\* no MemoryManager call made yet
NoCall == [op |-> "none"]

\* the tables of schema.py the processing pipeline writes, without rows
NoRows ==
    [transcription_processings |-> {}, transcription_analyses |-> {},
     transcription_insights |-> {}]

NoResult == [transcription_id |-> "", status |-> "", thread_id |-> "",
             analysis |-> None, insights |-> None]

(* ------------------------------- Init ---------------------------------- *)
\* the store holds nothing for a thread, or the checkpoint an earlier
\* processing run of the thread left in it
Init ==
    /\ store \in [ThreadConfigs -> {EmptyState} \cup
                    {[thread_id |-> t, transcription_id |-> tr,
                      transcription_data |-> "td1",
                      transcription_analysis |-> None,
                      extracted_insights |-> None] :
                        t \in {"t1"}, tr \in {"tr1"}}]
    /\ \A c \in ThreadConfigs :
           Truthy(store[c]) => /\ store[c]["thread_id"] = c.thread_id
                               /\ c = thread_config(c.thread_id)
    /\ recursion_limit \in {2, 25}
    /\ compiled = FALSE
    /\ compiled_apps_cache = EmptyState
    /\ compiles = NoCompiles
    /\ _initialized = FALSE
    /\ connection_checks = 0
    /\ racers = <<>>
    /\ checkpoints = <<>>
    /\ mm_call = NoCall
    /\ reset_threads = {}
    /\ db = NoRows
    /\ db_call = NoCall
    /\ wt_call = NoCall
    /\ pc = "idle"
    /\ depth = 0
    /\ thread_id = ""
    /\ user_input = ""
    /\ transcription_id = ""
    /\ transcription_data = [data |-> "td1", analysis |-> None, insights |-> None]
    /\ fallback_used = FALSE
    /\ fallback_state = EmptyState
    /\ is_new_thread = FALSE
    /\ initial_state = EmptyState
    /\ state = EmptyState
    /\ node = ""
    /\ steps = 0
    /\ fb_message = NoMessage
    /\ outcome = "none"
    /\ reply = NoReply
    /\ turns = 0
    /\ default_runs = 0
    /\ fallback_runs = 0
    /\ recursion_hit = FALSE
    /\ main_raised = FALSE
    /\ had_checkpoint = FALSE
    /\ pre_state = EmptyState
    /\ lookup_result = EmptyState
    /\ call_kind = "none"
    /\ tp_context = <<>>
    /\ p_compiled = FALSE
    /\ p_state = EmptyState
    /\ p_result = NoResult
    /\ failed_stages = {}
    /\ stage_raised = FALSE
    /\ outputs = <<>>
    /\ trace = <<>>
    /\ unmapped_hit = FALSE

(* ------------------------ Assistant.process_message -------------------- *)
\* the compiled-graph cache and the compilations done
cacheVars == << compiled_apps_cache, compiles >>

\* the process-wide RedisCheckpointer
ckptVars == << _initialized, connection_checks >>

sideVars == << racers, checkpoints, mm_call, reset_threads, db, db_call, wt_call >>

callVars == << thread_id, user_input, transcription_data, transcription_id,
              call_kind >>

ghostVars == << default_runs, fallback_runs, recursion_hit, main_raised,
                had_checkpoint, pre_state, lookup_result, tp_context,
                outputs, trace, unmapped_hit >>

procVars ==
    << p_compiled, p_state, p_result, failed_stages, stage_raised >>

\* a caller invokes process_message(user_input, thread_id, transcription_data)
StartCall(t, u, td) ==
    /\ pc = "idle"
    /\ turns < MaxTurns
    /\ turns' = turns + 1
    /\ pc' = "pm_init"
    /\ depth' = 0
    /\ thread_id' = t
    /\ user_input' = u
    /\ transcription_data' = td
    /\ transcription_id' = ""
    /\ fallback_used' = FALSE
    /\ fallback_state' = EmptyState
    /\ is_new_thread' = FALSE
    /\ initial_state' = EmptyState
    /\ state' = EmptyState
    /\ node' = ""
    /\ steps' = 0
    /\ fb_message' = NoMessage
    /\ outcome' = "none"
    /\ reply' = NoReply
    /\ default_runs' = 0
    /\ fallback_runs' = 0
    /\ recursion_hit' = FALSE
    /\ main_raised' = FALSE
    /\ had_checkpoint' = Truthy(store[thread_config(t)])
    /\ pre_state' = store[thread_config(t)]
    /\ lookup_result' = EmptyState
    /\ call_kind' = "process_message"
    /\ tp_context' = <<>>
    /\ outputs' = <<>>
    /\ trace' = <<>>
    /\ unmapped_hit' = FALSE
    /\ UNCHANGED << store, recursion_limit, ckptVars, sideVars, compiled,
                    cacheVars, procVars >>

\* a graph compiled once more
Compile(c, which) == [c EXCEPT ![which] = @ + 1]

\* the assignment keeping the entry already cached
StoreCompiledApp_FirstWins(cache, checkpointer_id, compiled_app) ==
    [k \in DOMAIN cache \cup {checkpointer_id} |->
        IF k \in DOMAIN cache THEN cache[k] ELSE compiled_app]

\* `self._compiled_apps_cache[checkpointer_id] = compiled_app`
StoreCompiledApp(cache, checkpointer_id, compiled_app) ==
    [k \in DOMAIN cache \cup {checkpointer_id} |->
        IF k = checkpointer_id THEN compiled_app ELSE cache[k]]

\* _get_or_create_compiled_app: compiles the default graph inside the
\* checkpointer context unless the key is cached; a context that fails to
\* open raises
_get_or_create_compiled_app(checkpointer_id, ctx_ok) ==
    IF checkpointer_id \in DOMAIN compiled_apps_cache \/ ~ctx_ok
    THEN UNCHANGED cacheVars
    ELSE /\ compiled_apps_cache' =
                StoreCompiledApp(compiled_apps_cache, checkpointer_id, 0)
         /\ compiles' = Compile(Compile(compiles, "default"), "prewarm")

\* initialize without the early return
initialize_AlwaysChecks(ok) ==
    /\ connection_checks' = connection_checks + 1
    /\ _initialized' = ok

\* RedisCheckpointer.initialize: returns at once when already initialised,
\* otherwise checks the connection, sets the flag when the check passes and
\* raises when it fails
initialize(ok) ==
    IF _initialized THEN UNCHANGED ckptVars
    ELSE /\ connection_checks' = connection_checks + 1
         /\ _initialized' = ok

\* BaseAgent.initialize_memory of the Assistant: the store, the flag, the
\* pre-warm; raised tells whether it raised
initialize_memory(ok, warm_ok, raised) ==
    /\ initialize(ok)
    /\ (_initialized => ok)
    /\ IF ~ok
       THEN /\ warm_ok
            /\ raised
            /\ UNCHANGED << compiled, cacheVars >>
       ELSE /\ compiled' = TRUE
            /\ _get_or_create_compiled_app("default", warm_ok)
            /\ raised = ~warm_ok

\* `if not self._compiled: await self.initialize_memory()`, before the try:
\* a failing initialisation propagates to the caller
InitializeMemory(ok, warm_ok) ==
    /\ pc = "pm_init"
    /\ IF compiled
       THEN /\ ok /\ warm_ok
            /\ pc' = "pm_try"
            /\ UNCHANGED << compiled, cacheVars, ckptVars, outcome >>
       ELSE \E raised \in BOOLEAN :
                /\ initialize_memory(ok, warm_ok, raised)
                /\ IF raised
                   THEN pc' = "done" /\ outcome' = "raised"
                   ELSE pc' = "pm_try" /\ UNCHANGED outcome
    /\ UNCHANGED << store, recursion_limit, sideVars, depth, callVars,
                    fallback_used, fallback_state, is_new_thread,
                    initial_state, state, node, steps, fb_message, reply,
                    turns, ghostVars, procVars >>

\* a caller outside a turn awaits initialize_memory() of the Assistant, as
\* get_assistant does for the instance it creates
InitializeMemoryCall(ok, warm_ok) ==
    /\ pc = "idle"
    /\ turns < MaxTurns
    /\ turns' = turns + 1
    /\ \E raised \in BOOLEAN : initialize_memory(ok, warm_ok, raised)
    /\ UNCHANGED << pc, recursion_limit, sideVars, store, depth, callVars,
                    fallback_used, fallback_state, is_new_thread,
                    initial_state, state, node, steps, fb_message, outcome,
                    reply, ghostVars, procVars >>

\* health_check of the checkpointer: get_checkpointer awaits initialize()
\* before it opens the saver
HealthCheck(ok) ==
    /\ pc = "idle"
    /\ turns < MaxTurns
    /\ turns' = turns + 1
    /\ initialize(ok)
    /\ (_initialized => ok)
    /\ UNCHANGED << pc, recursion_limit, sideVars, store, depth, callVars,
                    fallback_used, fallback_state, is_new_thread,
                    initial_state, state, node, steps, fb_message, outcome,
                    reply, ghostVars, procVars, compiled, cacheVars >>

\* the flagged pass: `state = fallback_state`
UseFallbackState ==
    /\ pc = "pm_try"
    /\ TakesFallbackState(fallback_used, fallback_state)
    /\ state' = fallback_state
    /\ pc' = "pm_reply"
    /\ UNCHANGED << store, recursion_limit, ckptVars, sideVars, compiled,
                    cacheVars, depth, callVars, fallback_used, fallback_state,
                    is_new_thread, initial_state, node, steps, fb_message,
                    outcome, reply, turns, ghostVars, procVars >>

\* create_thread_config, get_thread_state, _prepare_initial_state
ResolveThread(read_ok) ==
    /\ pc = "pm_try"
    /\ ~TakesFallbackState(fallback_used, fallback_state)
    /\ LET found == get_thread_state(thread_id, read_ok)
       IN  /\ lookup_result' = found
           /\ is_new_thread' = ~Truthy(found)
           /\ initial_state' = _prepare_initial_state(
                  thread_id, user_input, transcription_data, ~Truthy(found))
    /\ pc' = "graph_enter"
    /\ UNCHANGED << store, recursion_limit, ckptVars, sideVars, compiled,
                    cacheVars, depth, callVars, fallback_used, fallback_state,
                    state, node, steps, fb_message, outcome, reply, turns,
                    default_runs, fallback_runs, recursion_hit, main_raised,
                    had_checkpoint, pre_state, tp_context, outputs, trace,
                    unmapped_hit, procVars >>

(* --------------------- Assistant._process_with_graph ------------------- *)
\* conditional edge after manager: the GREET intention is sent to touchpoint,
\* otherwise one Send per element of state["current_tasks"]; an empty list
\* of Sends leaves the graph without a successor
_continue_after_manager(s) ==
    IF s["current_intention"] = "greet" THEN "touchpoint"
    ELSE IF ~Has(s, "current_tasks") THEN "KeyError"
    ELSE IF s["current_tasks"] = <<>> THEN "END"
    \* get_updated_state reads these fields of the state for every task
    ELSE IF ~({"thread_id", "chat_history", "data_for_the_task",
               "transcription_analysis", "extracted_insights"}
                  \subseteq DOMAIN NodeView(s, StateChannels))
    THEN "KeyError"
    ELSE "task_orchestrator"

\* WorkerAgent: the specialists task_orchestrator_node can choose
WorkerAgents == {"conversation_handler"}

\* the path map of the sub-graph's conditional edge
WorkerEdges == {"transcription_digger"}

\* _next_worker returns state["next"], the chosen agent's value
_next_worker(chosen_agent) == chosen_agent

\* what _worker_subgraph_handler gives back for the runs of all the tasks
_worker_subgraph_handler(tasks) ==
    [messages |-> <<>>,
     data_for_the_task |-> [i \in 1..Len(tasks) |-> tasks[i]]]

\* the checkpointer context opens and ainvoke writes the input into the
\* thread's channels (a checkpoint), or the context fails and nothing ran
EnterGraph(ctx_ok) ==
    /\ pc = "graph_enter"
    /\ IF ctx_ok
       THEN LET s == ApplyUpdate(store[thread_config(thread_id)],
                                 initial_state, StateChannels)
            IN  /\ state' = s
                /\ store' = [store EXCEPT ![thread_config(thread_id)] = s]
                /\ default_runs' = default_runs + 1
                /\ compiles' = Compile(compiles, "default")
                /\ node' = "intent_seeker"
                /\ steps' = 0
                /\ pc' = "graph"
                /\ outputs' = Append(outputs, initial_state)
                /\ UNCHANGED << trace, unmapped_hit >>
                /\ UNCHANGED main_raised
       ELSE /\ pc' = "pm_except"
            /\ main_raised' = TRUE
            /\ UNCHANGED << state, store, default_runs, node, steps, outputs,
                            trace, unmapped_hit, compiles >>
    /\ UNCHANGED << recursion_limit, ckptVars, sideVars, compiled,
                    compiled_apps_cache, depth, callVars, fallback_used,
                    fallback_state, is_new_thread, initial_state, fb_message,
                    outcome, reply, turns, fallback_runs, recursion_hit,
                    had_checkpoint, pre_state, lookup_result, tp_context,
                    procVars >>

\* a node raised: the exception leaves ainvoke and _process_with_graph
NodeRaises ==
    /\ pc' = "pm_except"
    /\ main_raised' = TRUE
    /\ trace' = Append(trace, node)
    /\ UNCHANGED << state, store, node, steps, fb_message, recursion_hit,
                    tp_context, outputs, unmapped_hit >>

\* a node returned upd: merged through the reducers and checkpointed
NodeReturns(upd, next_node) ==
    LET s == ApplyUpdate(state, upd, StateChannels)
    IN  /\ state' = s
        /\ store' = [store EXCEPT ![thread_config(thread_id)] = s]
        /\ node' = next_node
        /\ steps' = steps + 1
        /\ outputs' = Append(outputs, upd)
        /\ trace' = Append(trace, node)
        /\ UNCHANGED << fb_message, recursion_hit, main_raised, unmapped_hit >>

\* the superstep budget is used up with a node still to run: ainvoke raises
\* GraphRecursionError, caught by `except RecursionError`, which calls
\* _handle_recursion_limit_fallback
RecursionLimitReached ==
    /\ pc = "graph"
    /\ steps >= recursion_limit
    /\ recursion_hit' = TRUE
    /\ fb_message' = RecursionFallback
    /\ pc' = "fb_enter"
    /\ UNCHANGED << state, store, node, steps, main_raised, tp_context,
                    outputs, trace, unmapped_hit >>
    /\ UNCHANGED << recursion_limit, ckptVars, sideVars, compiled, cacheVars,
                    depth, callVars, fallback_used, fallback_state,
                    is_new_thread, initial_state, outcome, reply, turns,
                    default_runs, fallback_runs, had_checkpoint, pre_state,
                    lookup_result, procVars >>

IntentSeekerNode(ok, intention) ==
    /\ pc = "graph"
    /\ steps < recursion_limit
    /\ node = "intent_seeker"
    /\ IF ok /\ Has(NodeView(state, StateChannels), "chat_history")
       THEN /\ NodeReturns(intent_seeker_node(intention, "inquiry"), "manager")
            /\ pc' = "graph"
            /\ UNCHANGED tp_context
       ELSE NodeRaises
    /\ UNCHANGED << recursion_limit, ckptVars, sideVars, compiled, cacheVars,
                    depth, callVars, fallback_used, fallback_state,
                    is_new_thread, initial_state, outcome, reply, turns,
                    default_runs, fallback_runs, had_checkpoint, pre_state,
                    lookup_result, procVars >>

ManagerNode(ok, tasks) ==
    /\ pc = "graph"
    /\ steps < recursion_limit
    /\ node = "manager"
    /\ LET s == ApplyUpdate(state, manager_node(tasks), StateChannels)
           target == _continue_after_manager(s)
       IN  IF ok /\ Has(state, "current_inquiry") /\ target # "KeyError"
           THEN /\ NodeReturns(manager_node(tasks), target)
                /\ pc' = IF target = "END" THEN "pm_reply" ELSE "graph"
                /\ UNCHANGED tp_context
           ELSE NodeRaises
    /\ UNCHANGED << recursion_limit, ckptVars, sideVars, compiled, cacheVars,
                    depth, callVars, fallback_used, fallback_state,
                    is_new_thread, initial_state, outcome, reply, turns,
                    default_runs, fallback_runs, had_checkpoint, pre_state,
                    lookup_result, procVars >>

\* the task_orchestrator superstep: one sub-graph run per Send; in each the
\* delegate chooses an agent and the conditional edge resolves its value
\* against the path map, raising on a value that is not a key of it
TaskOrchestratorNode(ok, chosen_agent) ==
    /\ pc = "graph"
    /\ steps < recursion_limit
    /\ node = "task_orchestrator"
    /\ IF ~ok
       THEN NodeRaises
       ELSE IF _next_worker(chosen_agent) \notin WorkerEdges
       THEN /\ pc' = "pm_except"
            /\ main_raised' = TRUE
            /\ unmapped_hit' = TRUE
            /\ trace' = Append(trace, node)
            /\ UNCHANGED << state, store, node, steps, fb_message,
                            recursion_hit, tp_context, outputs >>
       ELSE /\ NodeReturns(_worker_subgraph_handler(state["current_tasks"]),
                           "touchpoint")
            /\ pc' = "graph"
            /\ UNCHANGED tp_context
    /\ UNCHANGED << recursion_limit, ckptVars, sideVars, compiled, cacheVars,
                    depth, callVars, fallback_used, fallback_state,
                    is_new_thread, initial_state, outcome, reply, turns,
                    default_runs, fallback_runs, had_checkpoint, pre_state,
                    lookup_result, procVars >>

TouchpointNode(ok, answer) ==
    /\ pc = "graph"
    /\ steps < recursion_limit
    /\ node = "touchpoint"
    /\ IF ok /\ TouchpointCanRead(state)
       THEN /\ NodeReturns(touchpoint_node(answer), "END")
            /\ tp_context' =
                   Names(Last5(NodeView(state, StateChannels)["messages"]))
            /\ pc' = "pm_reply"
       ELSE NodeRaises
    /\ UNCHANGED << recursion_limit, ckptVars, sideVars, compiled, cacheVars,
                    depth, callVars, fallback_used, fallback_state,
                    is_new_thread, initial_state, outcome, reply, turns,
                    default_runs, fallback_runs, had_checkpoint, pre_state,
                    lookup_result, procVars >>

(* ----------------------------- fallback -------------------------------- *)
\* `except Exception` of process_message: _fallback_process_message seeds
\* the fallback workflow with the GeneralFallback message
StartGeneralFallback ==
    /\ pc = "pm_except"
    /\ depth < MaxDepth
    /\ fb_message' = GeneralFallback
    /\ pc' = "fb_enter"
    /\ UNCHANGED << store, recursion_limit, ckptVars, sideVars, compiled,
                    cacheVars, depth, callVars, fallback_used, fallback_state,
                    is_new_thread, initial_state, state, node, steps, outcome,
                    reply, turns, ghostVars, procVars >>

\* _handle_fallback re-raises as Exception.  Inside _process_with_graph the
\* exception reaches the `except Exception` of process_message; from
\* _fallback_process_message it leaves process_message
FallbackRaises ==
    IF fb_message = RecursionFallback
    THEN /\ pc' = "pm_except"
         /\ main_raised' = TRUE
         /\ UNCHANGED outcome
    ELSE /\ pc' = "done"
         /\ outcome' = "raised"
         /\ UNCHANGED main_raised

\* _process_with_fallback_graph: checkpointer context, then ainvoke writes
\* {"messages": [message]} into the same thread's channels
EnterFallbackGraph(ctx_ok) ==
    /\ pc = "fb_enter"
    /\ IF ctx_ok
       THEN LET s == ApplyUpdate(store[fallback_thread_config(thread_id)],
                                 [messages |-> << fb_message >>], StateChannels)
            IN  /\ state' = s
                /\ store' = [store EXCEPT
                                ![fallback_thread_config(thread_id)] = s]
                /\ fallback_runs' = fallback_runs + 1
                /\ compiles' = Compile(compiles, "fallback")
                /\ pc' = "fb_node"
                /\ outputs' = Append(outputs, [messages |-> << fb_message >>])
                /\ UNCHANGED << trace, unmapped_hit >>
                /\ UNCHANGED << outcome, main_raised >>
       ELSE /\ FallbackRaises
            /\ UNCHANGED << state, store, fallback_runs, outputs, trace,
                            unmapped_hit, compiles >>
    /\ UNCHANGED << depth, fallback_used, fallback_state, initial_state,
                    tp_context >>
    /\ UNCHANGED << recursion_limit, ckptVars, sideVars, compiled,
                    compiled_apps_cache, callVars, is_new_thread, node, steps,
                    fb_message, reply, turns, default_runs, recursion_hit,
                    had_checkpoint, pre_state, lookup_result, procVars >>

\* the single touchpoint node of the fallback graph; its result is returned
\* by _process_with_graph (recursion limit) or handed to the flagged
\* process_message call (general fallback)
FallbackTouchpoint(ok, answer) ==
    /\ pc = "fb_node"
    /\ IF ok /\ TouchpointCanRead(state)
       THEN LET s == ApplyUpdate(state, touchpoint_node(answer), StateChannels)
            IN  /\ store' = [store EXCEPT
                                ![fallback_thread_config(thread_id)] = s]
                /\ outputs' = Append(outputs, touchpoint_node(answer))
                /\ UNCHANGED << trace, unmapped_hit >>
                /\ tp_context' =
                       Names(Last5(NodeView(state, StateChannels)["messages"]))
                /\ UNCHANGED << outcome, main_raised >>
                /\ IF fb_message = RecursionFallback
                   THEN /\ state' = s
                        /\ pc' = "pm_reply"
                        /\ UNCHANGED << depth, fallback_used, fallback_state,
                                        initial_state >>
                   ELSE /\ depth' = depth + 1
                        /\ fallback_used' = TRUE
                        /\ fallback_state' = s
                        /\ state' = EmptyState
                        /\ initial_state' = EmptyState
                        /\ pc' = "pm_init"
       ELSE /\ FallbackRaises
            /\ UNCHANGED << state, store, tp_context, depth, fallback_used,
                            fallback_state, initial_state, outputs, trace,
                            unmapped_hit >>
    /\ UNCHANGED << fallback_runs, compiles >>
    /\ UNCHANGED << recursion_limit, ckptVars, sideVars, compiled,
                    compiled_apps_cache, callVars, is_new_thread, node, steps,
                    fb_message, reply, turns, default_runs, recursion_hit,
                    had_checkpoint, pre_state, lookup_result, procVars >>

(* ------------------------- response shaping ---------------------------- *)
\* `return ProcessedMessage(...)`; a missing or empty chat_history raises
\* inside the try
ShapeReply ==
    /\ pc = "pm_reply"
    /\ IF (Has(state, "chat_history") /\ Len(state["chat_history"]) > 0)
       THEN /\ reply' = ProcessedMessage(state, thread_id, fallback_used)
            /\ outcome' = "reply"
            /\ pc' = "done"
            /\ UNCHANGED main_raised
       ELSE /\ pc' = "pm_except"
            /\ main_raised' = TRUE
            /\ UNCHANGED << reply, outcome >>
    /\ UNCHANGED << store, recursion_limit, ckptVars, sideVars, compiled,
                    cacheVars, depth, callVars, fallback_used, fallback_state,
                    is_new_thread, initial_state, state, node, steps,
                    fb_message, turns, default_runs, fallback_runs,
                    recursion_hit, had_checkpoint, pre_state, lookup_result,
                    tp_context, outputs, trace, unmapped_hit, procVars >>

\* the caller has its reply or its exception; the frames of the call are gone
Return ==
    /\ pc = "done"
    /\ pc' = "idle"
    /\ depth' = 0
    /\ thread_id' = ""
    /\ user_input' = ""
    /\ transcription_id' = ""
    /\ transcription_data' = [data |-> "td1", analysis |-> None, insights |-> None]
    /\ fallback_used' = FALSE
    /\ fallback_state' = EmptyState
    /\ is_new_thread' = FALSE
    /\ initial_state' = EmptyState
    /\ state' = EmptyState
    /\ node' = ""
    /\ steps' = 0
    /\ fb_message' = NoMessage
    /\ outcome' = "none"
    /\ reply' = NoReply
    /\ default_runs' = 0
    /\ fallback_runs' = 0
    /\ recursion_hit' = FALSE
    /\ main_raised' = FALSE
    /\ had_checkpoint' = FALSE
    /\ pre_state' = EmptyState
    /\ lookup_result' = EmptyState
    /\ call_kind' = "none"
    /\ tp_context' = <<>>
    /\ p_state' = EmptyState
    /\ p_result' = NoResult
    /\ failed_stages' = {}
    /\ stage_raised' = FALSE
    /\ outputs' = <<>>
    /\ trace' = <<>>
    /\ unmapped_hit' = FALSE
    /\ UNCHANGED << store, recursion_limit, ckptVars, sideVars, compiled,
                    cacheVars, turns, p_compiled >>

(* ---------------- ProcessingAgent.process_transcription ---------------- *)
\* ProcessingWorkflow.get_initial_state
processing_initial_state(t, tr, td) ==
    [thread_id |-> t, transcription_id |-> tr, transcription_data |-> td,
     transcription_analysis |-> None, extracted_insights |-> None]

\* `is_new_thread = (await get_thread_state(config)) is None`:
\* get_thread_state returns a dict, never None
ProcessingIsNewThread(found) == FALSE

\* the result, with the status derived from the final state
ProcessedTranscription(final, t, tr) ==
    LET status == IF (final["transcription_analysis"] = None) #
                     (final["extracted_insights"] = None)
                  THEN "partial"
                  ELSE "failed"
    IN  [transcription_id |-> tr, status |-> status,
         thread_id |-> t, analysis |-> final["transcription_analysis"],
         insights |-> final["extracted_insights"]]

\* a caller invokes process_transcription(thread_id, transcription_id, data)
StartProcessing(t, tr) ==
    /\ pc = "idle"
    /\ turns < MaxTurns
    /\ turns' = turns + 1
    /\ pc' = "pt_init"
    /\ thread_id' = t
    /\ transcription_id' = tr
    /\ call_kind' = "process_transcription"
    /\ had_checkpoint' = Truthy(store[thread_config(t)])
    /\ pre_state' = store[thread_config(t)]
    /\ failed_stages' = {}
    /\ stage_raised' = FALSE
    /\ outputs' = <<>>
    /\ trace' = <<>>
    /\ unmapped_hit' = FALSE
    /\ UNCHANGED << store, recursion_limit, ckptVars, sideVars, compiled,
                    cacheVars, depth, user_input, fallback_used,
                    fallback_state, state, steps, fb_message, reply,
                    default_runs, fallback_runs, recursion_hit, main_raised,
                    tp_context, transcription_data, is_new_thread,
                    initial_state, node, outcome, lookup_result, p_compiled,
                    p_state, p_result >>

\* `if not self._compiled: await self.initialize_memory()`, before the try
ProcessingInitializeMemory(ok, warm_ok) ==
    /\ pc = "pt_init"
    /\ IF p_compiled
       THEN /\ ok /\ warm_ok
            /\ pc' = "pt_try"
            /\ UNCHANGED << p_compiled, ckptVars, outcome >>
       ELSE /\ initialize(ok)
            /\ (_initialized => ok)
            /\ IF ~ok
               THEN /\ warm_ok
                    /\ pc' = "done"
                    /\ outcome' = "raised"
                    /\ UNCHANGED p_compiled
               ELSE /\ p_compiled' = TRUE
                    /\ IF warm_ok
                       THEN pc' = "pt_try" /\ UNCHANGED outcome
                       ELSE pc' = "done" /\ outcome' = "raised"
    /\ UNCHANGED << store, recursion_limit, sideVars, compiled, cacheVars,
                    depth, user_input, fallback_used, fallback_state, state,
                    steps, fb_message, reply, default_runs, fallback_runs,
                    recursion_hit, main_raised, tp_context, callVars,
                    is_new_thread, initial_state, node, turns, had_checkpoint,
                    pre_state, lookup_result, p_state, p_result, failed_stages,
                    stage_raised, outputs, trace, unmapped_hit >>

\* create_thread_config, get_thread_state, _prepare_initial_state
ProcessingResolveThread(read_ok) ==
    /\ pc = "pt_try"
    /\ LET found == get_thread_state(thread_id, read_ok)
       IN  /\ lookup_result' = found
           /\ is_new_thread' = ProcessingIsNewThread(found)
           \* ProcessingAgent._prepare_initial_state
           /\ initial_state' =
                  IF ProcessingIsNewThread(found)
                  THEN processing_initial_state(thread_id, transcription_id,
                                                transcription_data.data)
                  ELSE [thread_id |-> thread_id]
    /\ pc' = "pt_enter"
    /\ UNCHANGED << store, recursion_limit, ckptVars, sideVars, compiled,
                    cacheVars, depth, user_input, fallback_used,
                    fallback_state, state, steps, fb_message, reply,
                    default_runs, fallback_runs, recursion_hit, main_raised,
                    tp_context, callVars, node, outcome, turns, had_checkpoint,
                    pre_state, outputs, trace, unmapped_hit, procVars >>

\* `except Exception as e: ... raise e`
ProcessingRaises ==
    /\ pc' = "done"
    /\ outcome' = "raised"
    /\ UNCHANGED << store, node, steps, p_state, p_result, failed_stages,
                    stage_raised, outputs, trace, unmapped_hit >>

\* an exception left a stage: nothing catches it before process_transcription
StageRaises ==
    /\ pc' = "done"
    /\ outcome' = "raised"
    /\ stage_raised' = TRUE
    /\ UNCHANGED << store, node, steps, p_state, p_result, failed_stages,
                    outputs, trace, unmapped_hit >>

\* a stage returned upd: merged into the ProcessingState channels and
\* checkpointed
StageReturns(agent_name, failed, upd, next_node) ==
    LET s == ApplyUpdate(p_state, upd,
                         {"thread_id", "transcription_id",
                          "transcription_data", "transcription_analysis",
                          "extracted_insights"})
    IN  /\ p_state' = s
        /\ failed_stages' = IF failed THEN failed_stages \cup {agent_name}
                            ELSE failed_stages
        /\ outputs' = Append(outputs, upd)
        /\ UNCHANGED << stage_raised, trace, unmapped_hit >>
        /\ store' = [store EXCEPT ![thread_config(thread_id)] = s]
        /\ node' = next_node
        /\ steps' = steps + 1
        /\ pc' = IF next_node = "END" THEN "pt_status" ELSE "pt_graph"
        /\ UNCHANGED << outcome, p_result >>

\* ProcessingAgent._process_with_graph: no recursion guard, no fallback
ProcessingEnterGraph(ctx_ok) ==
    /\ pc = "pt_enter"
    /\ IF ctx_ok
       THEN LET s == ApplyUpdate(store[thread_config(thread_id)], initial_state,
                                 {"thread_id", "transcription_id",
                                  "transcription_data",
                                  "transcription_analysis",
                                  "extracted_insights"})
            IN  /\ p_state' = s
                /\ store' = [store EXCEPT ![thread_config(thread_id)] = s]
                /\ node' = "transcription_loader"
                /\ steps' = 0
                /\ pc' = "pt_graph"
                /\ outputs' = Append(outputs, initial_state)
                /\ UNCHANGED << trace, unmapped_hit >>
                /\ UNCHANGED << outcome, p_result, failed_stages, stage_raised
                                >>
       ELSE ProcessingRaises
    /\ UNCHANGED << recursion_limit, ckptVars, sideVars, compiled, cacheVars,
                    depth, user_input, fallback_used, fallback_state, state,
                    fb_message, reply, default_runs, fallback_runs,
                    recursion_hit, main_raised, tp_context, callVars,
                    is_new_thread, initial_state, turns, had_checkpoint,
                    pre_state, lookup_result, p_compiled >>

\* GraphRecursionError is an ordinary exception for process_transcription
ProcessingRecursionLimitReached ==
    /\ pc = "pt_graph"
    /\ steps >= recursion_limit
    /\ ProcessingRaises
    /\ UNCHANGED << recursion_limit, ckptVars, sideVars, compiled, cacheVars,
                    depth, user_input, fallback_used, fallback_state, state,
                    fb_message, reply, default_runs, fallback_runs,
                    recursion_hit, main_raised, tp_context, callVars,
                    is_new_thread, initial_state, turns, had_checkpoint,
                    pre_state, lookup_result, p_compiled >>

StageMessage(name) == [messages |-> << SMessage(name, "") >>]

\* transcription_loader_node: state["transcription_id"] is read before the
\* try; inside it every failure becomes a trace message
TranscriptionLoaderNode(ok) ==
    /\ pc = "pt_graph"
    /\ steps < recursion_limit
    /\ node = "transcription_loader"
    /\ LET agent_name == "ProcessingTranscriptionLoader"
       IN  IF ~Has(p_state, "transcription_id") THEN StageRaises
           ELSE IF ok
           THEN StageReturns(agent_name, FALSE,
                             [transcription_data |-> "td1"] @@
                                 StageMessage(agent_name),
                             "transcription_analyzer")
           ELSE StageReturns(agent_name, TRUE, StageMessage(agent_name),
                             "transcription_analyzer")
    /\ UNCHANGED << recursion_limit, ckptVars, sideVars, compiled, cacheVars,
                    depth, user_input, fallback_used, fallback_state, state,
                    fb_message, reply, default_runs, fallback_runs,
                    recursion_hit, main_raised, tp_context, callVars,
                    is_new_thread, initial_state, turns, had_checkpoint,
                    pre_state, lookup_result, p_compiled >>

\* transcription_analyzer_node: the except branch formats
\* state['transcription_data'] again, so a missing key still raises
TranscriptionAnalyzerNode(ok) ==
    /\ pc = "pt_graph"
    /\ steps < recursion_limit
    /\ node = "transcription_analyzer"
    /\ LET agent_name == "ProcessingTranscriptionAnalyzer"
       IN  IF ~Has(p_state, "transcription_data") THEN StageRaises
           ELSE IF ok
           THEN StageReturns(agent_name, FALSE,
                             [transcription_analysis |-> "an1"] @@
                                 StageMessage(agent_name),
                             "insight_extractor")
           ELSE StageReturns(agent_name, TRUE, StageMessage(agent_name),
                             "insight_extractor")
    /\ UNCHANGED << recursion_limit, ckptVars, sideVars, compiled, cacheVars,
                    depth, user_input, fallback_used, fallback_state, state,
                    fb_message, reply, default_runs, fallback_runs,
                    recursion_hit, main_raised, tp_context, callVars,
                    is_new_thread, initial_state, turns, had_checkpoint,
                    pre_state, lookup_result, p_compiled >>

\* insight_extractor_node: without an analysis it only reports the error
InsightExtractorNode(ok) ==
    /\ pc = "pt_graph"
    /\ steps < recursion_limit
    /\ node = "insight_extractor"
    /\ LET agent_name == "ProcessingInsightExtractor"
       IN  IF ~Has(p_state, "transcription_data")
              \/ ~Has(p_state, "transcription_analysis")
           THEN StageRaises
           ELSE IF p_state["transcription_analysis"] # None /\ ok
           THEN StageReturns(agent_name, FALSE,
                             [extracted_insights |-> "in1"] @@
                                 StageMessage(agent_name),
                             "results_storage")
           ELSE StageReturns(agent_name, TRUE, StageMessage(agent_name),
                             "results_storage")
    /\ UNCHANGED << recursion_limit, ckptVars, sideVars, compiled, cacheVars,
                    depth, user_input, fallback_used, fallback_state, state,
                    fb_message, reply, default_runs, fallback_runs,
                    recursion_hit, main_raised, tp_context, callVars,
                    is_new_thread, initial_state, turns, had_checkpoint,
                    pre_state, lookup_result, p_compiled >>

\* results_storage_node: reads both result fields before its try and
\* returns a trace message whether or not the transaction committed
ResultsStorageNode(ok) ==
    /\ pc = "pt_graph"
    /\ steps < recursion_limit
    /\ node = "results_storage"
    /\ LET agent_name == "ProcessingResultsStorage"
       IN  IF ~Has(p_state, "transcription_analysis")
              \/ ~Has(p_state, "extracted_insights")
           THEN StageRaises
           ELSE StageReturns(agent_name, ~ok, StageMessage(agent_name),
                             "END")
    /\ UNCHANGED << recursion_limit, ckptVars, sideVars, compiled, cacheVars,
                    depth, user_input, fallback_used, fallback_state, state,
                    fb_message, reply, default_runs, fallback_runs,
                    recursion_hit, main_raised, tp_context, callVars,
                    is_new_thread, initial_state, turns, had_checkpoint,
                    pre_state, lookup_result, p_compiled >>

\* status and ProcessedTranscription from the final state
ProcessingShapeResult ==
    /\ pc = "pt_status"
    /\ IF Has(p_state, "transcription_analysis")
          /\ Has(p_state, "extracted_insights")
       THEN /\ p_result' = ProcessedTranscription(p_state, thread_id,
                                                  transcription_id)
            /\ outcome' = "result"
            /\ pc' = "done"
            /\ UNCHANGED << store, node, steps, p_state, failed_stages,
                            stage_raised, outputs, trace, unmapped_hit >>
       ELSE ProcessingRaises
    /\ UNCHANGED << recursion_limit, ckptVars, sideVars, compiled, cacheVars,
                    depth, user_input, fallback_used, fallback_state, state,
                    fb_message, reply, default_runs, fallback_runs,
                    recursion_hit, main_raised, tp_context, callVars,
                    is_new_thread, initial_state, turns, had_checkpoint,
                    pre_state, lookup_result, p_compiled >>

Next ==
    \/ \E t \in {"t1"}, u \in {"hello"},
          td \in {[data |-> "td1", analysis |-> "an1", insights |-> None]} :
           StartCall(t, u, td)
    \/ \E ok, warm_ok \in BOOLEAN : InitializeMemory(ok, warm_ok)
    \/ \E ok, warm_ok \in BOOLEAN : InitializeMemoryCall(ok, warm_ok)
    \/ \E ok \in BOOLEAN : HealthCheck(ok)
    \/ UseFallbackState
    \/ \E ok \in BOOLEAN : ResolveThread(ok)
    \/ \E ok \in BOOLEAN : EnterGraph(ok)
    \/ RecursionLimitReached
    \/ \E ok \in BOOLEAN, i \in {"greet", "question"} : IntentSeekerNode(ok, i)
    \/ \E ok \in BOOLEAN, ts \in {<<>>, <<"task1">>} : ManagerNode(ok, ts)
    \/ \E ok \in BOOLEAN, w \in WorkerAgents : TaskOrchestratorNode(ok, w)
    \/ \E ok \in BOOLEAN, a \in {"", "answer"} : TouchpointNode(ok, a)
    \/ StartGeneralFallback
    \/ \E ok \in BOOLEAN : EnterFallbackGraph(ok)
    \/ \E ok \in BOOLEAN, a \in {"", "answer"} : FallbackTouchpoint(ok, a)
    \/ ShapeReply
    \/ \E t \in {"t1"}, tr \in {"tr1"} : StartProcessing(t, tr)
    \/ \E ok, warm_ok \in BOOLEAN : ProcessingInitializeMemory(ok, warm_ok)
    \/ \E ok \in BOOLEAN : ProcessingResolveThread(ok)
    \/ \E ok \in BOOLEAN : ProcessingEnterGraph(ok)
    \/ ProcessingRecursionLimitReached
    \/ \E ok \in BOOLEAN : TranscriptionLoaderNode(ok)
    \/ \E ok \in BOOLEAN : TranscriptionAnalyzerNode(ok)
    \/ \E ok \in BOOLEAN : InsightExtractorNode(ok)
    \/ \E ok \in BOOLEAN : ResultsStorageNode(ok)
    \/ ProcessingShapeResult
    \/ Return

Spec == Init /\ [][Next]_vars

(* ------------------------- the reducers alone -------------------------- *)
\* a bound on the updates merged into one state
MaxMerges == 3

\* list values a node may return for a reducer field
ReducerValues == {<<>>, << "a", "b" >>, << "c" >>}

\* a state holding any list in its reducer fields
ReducerInit ==
    /\ store = [c \in ThreadConfigs |-> EmptyState]
    /\ recursion_limit = 25
    /\ pc = "merge"
    /\ state \in {[unhandled_tasks |-> v, messages |-> <<>>] :
                      v \in ReducerValues}
    /\ pre_state = state
    /\ compiled = FALSE
    /\ compiled_apps_cache = EmptyState
    /\ compiles = NoCompiles
    /\ _initialized = FALSE
    /\ connection_checks = 0
    /\ racers = <<>>
    /\ checkpoints = <<>>
    /\ mm_call = NoCall
    /\ reset_threads = {}
    /\ db = NoRows
    /\ db_call = NoCall
    /\ wt_call = NoCall
    /\ depth = 0
    /\ thread_id = ""
    /\ user_input = ""
    /\ transcription_id = ""
    /\ transcription_data = [data |-> "td1", analysis |-> None, insights |-> None]
    /\ fallback_used = FALSE
    /\ fallback_state = EmptyState
    /\ is_new_thread = FALSE
    /\ initial_state = EmptyState
    /\ node = ""
    /\ steps = 0
    /\ fb_message = NoMessage
    /\ outcome = "none"
    /\ reply = NoReply
    /\ turns = 0
    /\ default_runs = 0
    /\ fallback_runs = 0
    /\ recursion_hit = FALSE
    /\ main_raised = FALSE
    /\ had_checkpoint = FALSE
    /\ lookup_result = EmptyState
    /\ call_kind = "none"
    /\ tp_context = <<>>
    /\ p_compiled = FALSE
    /\ p_state = EmptyState
    /\ p_result = NoResult
    /\ failed_stages = {}
    /\ stage_raised = FALSE
    /\ outputs = <<>>
    /\ trace = <<>>
    /\ unmapped_hit = FALSE

\* the executor merges one partial update through the fields' reducers
Merge(upd) ==
    /\ pc = "merge"
    /\ steps < MaxMerges
    /\ state' = ApplyUpdate(state, upd, StateChannels)
    /\ outputs' = Append(outputs, upd)
    /\ steps' = steps + 1
    /\ UNCHANGED << store, recursion_limit, ckptVars, sideVars, compiled,
                    cacheVars, pc, depth, thread_id, user_input,
                    transcription_data, transcription_id, fallback_used,
                    fallback_state, is_new_thread, initial_state, node,
                    fb_message, outcome, reply, turns, default_runs,
                    fallback_runs, recursion_hit, main_raised, had_checkpoint,
                    pre_state, lookup_result, call_kind, tp_context,
                    p_compiled, p_state, p_result, failed_stages, stage_raised,
                    trace, unmapped_hit >>

\* partial updates: each names the reset-on-empty field unhandled_tasks,
\* the append field messages, both, or neither
ReducerNext ==
    \E upd \in {[current_inquiry |-> "inquiry"]}
                \cup {[unhandled_tasks |-> v] : v \in ReducerValues}
                \cup {[messages |-> v] : v \in ReducerValues}
                \cup {[unhandled_tasks |-> v, messages |-> w] :
                          v \in ReducerValues, w \in {<< "c" >>}} :
        Merge(upd)

ReducerSpec == ReducerInit /\ [][ReducerNext]_vars

(* ---------------- concurrent fills of the compiled-app cache ----------- *)
\* no turn of an agent is running or has run
NoTurn ==
    /\ depth = 0
    /\ thread_id = ""
    /\ user_input = ""
    /\ transcription_id = ""
    /\ transcription_data = [data |-> "td1", analysis |-> None, insights |-> None]
    /\ fallback_used = FALSE
    /\ fallback_state = EmptyState
    /\ is_new_thread = FALSE
    /\ initial_state = EmptyState
    /\ state = EmptyState
    /\ node = ""
    /\ steps = 0
    /\ fb_message = NoMessage
    /\ outcome = "none"
    /\ reply = NoReply
    /\ turns = 0
    /\ default_runs = 0
    /\ fallback_runs = 0
    /\ recursion_hit = FALSE
    /\ main_raised = FALSE
    /\ had_checkpoint = FALSE
    /\ pre_state = EmptyState
    /\ lookup_result = EmptyState
    /\ call_kind = "none"
    /\ tp_context = <<>>
    /\ p_compiled = FALSE
    /\ p_state = EmptyState
    /\ p_result = NoResult
    /\ failed_stages = {}
    /\ stage_raised = FALSE
    /\ outputs = <<>>
    /\ trace = <<>>
    /\ unmapped_hit = FALSE

\* the variables NoTurn fixes
noTurnVars ==
    << depth, callVars, fallback_used, fallback_state, is_new_thread,
       initial_state, state, node, steps, fb_message, outcome, reply, turns,
       ghostVars, procVars >>

\* coroutines awaiting _get_or_create_compiled_app at the same time
MaxCallers == 3

Callers == 1..MaxCallers

\* every caller is about to test `checkpointer_id not in cache`; the
\* checkpointer is initialised, the cache empty
CacheInit ==
    /\ NoTurn
    /\ store = [c \in ThreadConfigs |-> EmptyState]
    /\ recursion_limit = 25
    /\ pc = "idle"
    /\ compiled = TRUE
    /\ compiled_apps_cache = EmptyState
    /\ compiles = NoCompiles
    /\ _initialized = TRUE
    /\ connection_checks = 1
    /\ racers = [c \in Callers |-> [pc |-> "start", result |-> -1]]
    /\ checkpoints = <<>>
    /\ mm_call = NoCall
    /\ reset_threads = {}
    /\ db = NoRows
    /\ db_call = NoCall
    /\ wt_call = NoCall

\* `if checkpointer_id not in self._compiled_apps_cache`: a hit returns the
\* cached app without suspending, a miss enters `async with`
CheckCache(c, checkpointer_id) ==
    /\ racers[c].pc = "start"
    /\ racers' = [racers EXCEPT ![c] =
           IF checkpointer_id \in DOMAIN compiled_apps_cache
           THEN [pc |-> "done", result |-> compiled_apps_cache[checkpointer_id]]
           ELSE [pc |-> "ctx", result |-> -1]]
    /\ UNCHANGED cacheVars
    /\ UNCHANGED << store, recursion_limit, pc, compiled, ckptVars,
                    checkpoints, mm_call, reset_threads, db, db_call, wt_call,
                    noTurnVars >>

\* get_checkpointer opened its saver (the caller was suspended meanwhile),
\* or failed and the caller raises
OpenContext(c, ctx_ok) ==
    /\ racers[c].pc = "ctx"
    /\ racers' = [racers EXCEPT ![c].pc =
                      IF ctx_ok THEN "compile" ELSE "raised"]
    /\ UNCHANGED cacheVars
    /\ UNCHANGED << store, recursion_limit, pc, compiled, ckptVars,
                    checkpoints, mm_call, reset_threads, db, db_call, wt_call,
                    noTurnVars >>

\* compile and cache write, with no suspension point between them; the app
\* is named after the caller that compiled it
CompileAndStore(c, checkpointer_id) ==
    /\ racers[c].pc = "compile"
    /\ compiled_apps_cache' =
           StoreCompiledApp(compiled_apps_cache, checkpointer_id, c)
    /\ compiles' = Compile(Compile(compiles, "default"), "prewarm")
    /\ racers' = [racers EXCEPT ![c].pc = "exit"]
    /\ UNCHANGED << store, recursion_limit, pc, compiled, ckptVars,
                    checkpoints, mm_call, reset_threads, db, db_call, wt_call,
                    noTurnVars >>

\* the context closed (a suspension point):
\* `return self._compiled_apps_cache[checkpointer_id]`
ReturnApp(c, checkpointer_id) ==
    /\ racers[c].pc = "exit"
    /\ racers' = [racers EXCEPT ![c] =
           [pc |-> "done", result |-> compiled_apps_cache[checkpointer_id]]]
    /\ UNCHANGED cacheVars
    /\ UNCHANGED << store, recursion_limit, pc, compiled, ckptVars,
                    checkpoints, mm_call, reset_threads, db, db_call, wt_call,
                    noTurnVars >>

CacheNext ==
    \E c \in Callers :
        \/ CheckCache(c, "default")
        \/ \E ctx_ok \in BOOLEAN : OpenContext(c, ctx_ok)
        \/ CompileAndStore(c, "default")
        \/ ReturnApp(c, "default")

CacheSpec == CacheInit /\ [][CacheNext]_vars

(* ------------------ stored values and their rehydration ---------------- *)
\* JSON values as the saver returns them: strings, numbers, null, lists and
\* dicts, each under a tag of its own; Object is an instance built from them
Str(s) == [str |-> s]

Num(n) == [num |-> n]

Null == [null |-> TRUE]

List(seq) == [list |-> seq]

Dict(f) == [dict |-> f]

Object(cls, attrs) == [cls |-> cls, attrs |-> attrs]

IsList(v) == DOMAIN v = {"list"}

IsDict(v) == DOMAIN v = {"dict"}

IsObject(v) == DOMAIN v = {"cls", "attrs"}

\* the envelope test looking for the marker of another encoding
IsConstructor_Lc1(d) ==
    /\ {"lc", "type", "id", "method", "kwargs"} \subseteq DOMAIN d
    /\ d["lc"] = Num(1)
    /\ d["type"] = Str("constructor")

\* `data.get("lc") == 2 and data.get("type") == "constructor" and
\* "id" in data and "method" in data and "kwargs" in data`
IsConstructor(d) ==
    /\ {"lc", "type", "id", "method", "kwargs"} \subseteq DOMAIN d
    /\ d["lc"] = Num(2)
    /\ d["type"] = Str("constructor")

\* pydantic models of app.core.models.messages: field -> declared type
FieldTypes ==
    [HMessage |-> [content |-> "str", name |-> "str"],
     SMessage |-> [content |-> "str", name |-> "str"],
     AMessage |-> [content |-> "str", name |-> "str"],
     MessagePerformance |-> [total_time |-> "str"],
     ProcessedMessage |->
         [response |-> "str", thread_id |-> "str", memory_enabled |-> "bool",
          fallback_used |-> "bool", message_count |-> "num",
          performance |-> "MessagePerformance"]]

ModelFields == [cls \in DOMAIN FieldTypes |-> DOMAIN FieldTypes[cls]]

MessagesModule == << "app", "core", "models", "messages" >>

\* cls.model_construct(**kwargs): no validation, the declared fields that
\* were passed are set, other keys are dropped
model_construct(cls, kwargs) ==
    Object(cls, [k \in DOMAIN kwargs \cap ModelFields[cls] |-> kwargs[k]])

\* a failed construction answering null
Degrade_Null(data) == Null

\* `return data`: the envelope as it was read
Degrade(data) == data

\* the constructor branch of _transform_constructor_items for an envelope
\* whose kwargs are already transformed; whatever raises is caught
Instantiate(data, transformed_kwargs) ==
    LET module_path == data.dict["id"]
        method_info == data.dict["method"]
        \* importlib.import_module(module_name) and
        \* getattr(module, class_name) both succeed
        Importable(module_name, class_name) ==
            module_name = MessagesModule /\ class_name \in DOMAIN ModelFields
        \* the value passes validation as the declared type
        HasType(v, type) ==
            IF type \in {"str", "bool", "num"} THEN DOMAIN v = {type}
            ELSE IsObject(v) /\ v.cls = type
        \* cls(**kwargs) validates: every field is required and of its type
        Validates(cls, kwargs) ==
            /\ ModelFields[cls] \subseteq DOMAIN kwargs
            /\ \A k \in ModelFields[cls] :
                   HasType(kwargs[k], FieldTypes[cls][k])
    IN  IF ~IsList(module_path) \/ Len(module_path.list) < 2
        THEN Degrade(data)
        ELSE
        LET path == module_path.list
            module_name == [i \in 1..(Len(path) - 1) |-> path[i].str]
            class_name == path[Len(path)].str
        IN  IF ~Importable(module_name, class_name) THEN Degrade(data)
            ELSE IF ~IsList(method_info) \/ Len(method_info.list) < 2
            THEN Degrade(data)
            ELSE
            LET method_name ==
                    IF DOMAIN method_info.list[2] = {"str"}
                       /\ method_info.list[2].str # ""
                    THEN method_info.list[2].str
                    ELSE "__init__"
            IN  IF ~IsDict(transformed_kwargs) THEN Degrade(data)
                ELSE IF method_name = "model_construct"
                THEN model_construct(class_name, transformed_kwargs.dict)
                ELSE IF method_name = "__init__"
                        /\ Validates(class_name, transformed_kwargs.dict)
                THEN model_construct(class_name, transformed_kwargs.dict)
                ELSE Degrade(data)

RECURSIVE _transform_constructor_items(_)
_transform_constructor_items(data) ==
    IF IsDict(data)
    THEN IF IsConstructor(data.dict)
         THEN Instantiate(data,
                  _transform_constructor_items(data.dict["kwargs"]))
         ELSE Dict([k \in DOMAIN data.dict |->
                       _transform_constructor_items(data.dict[k])])
    ELSE IF IsList(data)
    THEN List([i \in 1..Len(data.list) |->
                  _transform_constructor_items(data.list[i])])
    ELSE data

\* the constructor envelope of the docstring
Envelope(id, method, kwargs) ==
    Dict([lc |-> Num(2),
          type |-> Str("constructor"),
          id |-> List([i \in 1..Len(id) |-> Str(id[i])]),
          method |-> List(<< Null, method >>),
          kwargs |-> kwargs])

\* the structural encoding of a typed value: every instance becomes the
\* envelope naming its class, with its attributes encoded as kwargs
RECURSIVE Encode(_)
Encode(v) ==
    IF IsObject(v)
    THEN Envelope(Append(MessagesModule, v.cls), Str("model_construct"),
                  Dict([k \in DOMAIN v.attrs |-> Encode(v.attrs[k])]))
    ELSE IF IsDict(v) THEN Dict([k \in DOMAIN v.dict |-> Encode(v.dict[k])])
    ELSE IF IsList(v)
    THEN List([i \in 1..Len(v.list) |-> Encode(v.list[i])])
    ELSE v

(* ------------------------- MemoryManager calls ------------------------- *)
\* checkpoints the store holds at most
MaxCheckpoints == 2

\* the lineages of the store: both namespaces of t1, the default one of t2
Lineages ==
    {create_thread_config(t, ns) : t \in {"t1", "t2"}, ns \in {"", "fallback"}}
        \ {create_thread_config("t2", "fallback")}

\* configs a caller passes: a lineage, an empty thread_id, no thread_id
CallerConfigs ==
    Lineages \cup {create_thread_config("", ""), [checkpoint_ns |-> ""]}

Hello == Object("HMessage", [content |-> Str("hello"), name |-> Str("Human")])

Answer ==
    Object("SMessage", [content |-> Str("answer"), name |-> Str("Touchpoint")])

Reply ==
    Object("ProcessedMessage",
           [response |-> Str("answer"), thread_id |-> Str("t1"),
            memory_enabled |-> [bool |-> TRUE],
            fallback_used |-> [bool |-> FALSE],
            message_count |-> Num(2),
            performance |->
                Object("MessagePerformance", [total_time |-> Str("0.10s")])])

\* typed state values: messages in a list, a message in a dict, an instance
\* inside the attributes of another instance
TypedStates ==
    {Dict([thread_id |-> Str("t1"),
           chat_history |-> List(<< Hello, Answer >>),
           messages |-> List(<<>>),
           transcription_data |-> Dict([text |-> Str("td1"), last |-> Answer]),
           extracted_insights |-> Reply])}

\* envelopes that cannot be built, by what goes wrong
UnresolvedEnvelopes ==
    LET kwargs == Dict([content |-> Str("hello"), name |-> Str("Human")])
    IN  [unknown_module |->
             Envelope(<< "app", "core", "models", "gone", "HMessage" >>,
                      Str("model_construct"), kwargs),
         unknown_class |->
             Envelope(Append(MessagesModule, "Nope"), Str("model_construct"),
                      kwargs),
         short_path |->
             Envelope(<< "HMessage" >>, Str("model_construct"), kwargs),
         missing_method |->
             Envelope(Append(MessagesModule, "HMessage"), Str("from_nowhere"),
                      kwargs),
         constructor_raises |->
             Envelope(Append(MessagesModule, "HMessage"), Null,
                      Dict([content |-> Num(5)]))]

\* a stored state holding good envelopes beside the unresolved ones
DegradedState ==
    Dict([chat_history |->
              List(<< Encode(Hello), UnresolvedEnvelopes.unknown_class >>),
          transcription_data |-> Dict(UnresolvedEnvelopes),
          extracted_insights |-> Encode(Reply)])

\* what a graph run may write: channel values, timestamp, metadata
StoredWrites ==
    {[channel_values |-> Encode(v), ts |-> Str("2025-01-01T00:00:00Z"),
      metadata |-> Dict([source |-> Str("loop"), writes |-> Encode(Hello)])] :
        v \in TypedStates}
    \cup {[channel_values |-> DegradedState, ts |-> Str("yesterday"),
           metadata |-> Dict([source |-> Str("input")])]}

_extract_created_at_from_checkpoint(checkpoint) ==
    LET \* `ts.replace("Z", "+00:00")` on the timestamps of StoredWrites
        replace_Z(ts) ==
            IF ts = "2025-01-01T00:00:00Z" THEN "2025-01-01T00:00:00+00:00"
            ELSE ts
        \* the strings datetime.fromisoformat accepts, with what it returns
        IsoDatetimes ==
            [ts \in {"2025-01-01T00:00:00+00:00"} |->
                [datetime |-> << 2025, 1, 1, 0, 0, 0 >>, utcoffset |-> 0]]
    IN  IF DOMAIN checkpoint.ts = {"str"}
           /\ replace_Z(checkpoint.ts.str) \in DOMAIN IsoDatetimes
        THEN IsoDatetimes[replace_Z(checkpoint.ts.str)]
        ELSE Null

\* the key is present but may be empty
HasThreadId_KeyOnly(configurable) == Has(configurable, "thread_id")

\* `config["configurable"].get("thread_id")` is truthy
HasThreadId(configurable) ==
    Has(configurable, "thread_id") /\ configurable["thread_id"] # ""

\* the checkpoints of the lineage a config addresses, oldest first
Lineage(cps, configurable) == SelectSeq(cps, LAMBDA c : c.config = configurable)

\* saver.alist yielding the oldest checkpoint first
alist_OldestFirst(cps, configurable) == Lineage(cps, configurable)

\* saver.alist(config): the lineage, most recent first
alist(cps, configurable) ==
    LET lin == Lineage(cps, configurable)
    IN  [i \in 1..Len(lin) |-> lin[Len(lin) - i + 1]]

\* the delete sparing the other namespaces of the thread
adelete_thread_DefaultNamespaceOnly(cps, t) ==
    SelectSeq(cps, LAMBDA c : c.config # create_thread_config(t, ""))

\* saver.adelete_thread(thread_id): every checkpoint of the thread goes
adelete_thread(cps, t) == SelectSeq(cps, LAMBDA c : c.config.thread_id # t)

\* channel values of the latest checkpoint of a lineage, {} without one
LatestValues(cps, configurable) ==
    LET lin == Lineage(cps, configurable)
    IN  IF lin = <<>> THEN EmptyState ELSE lin[Len(lin)].channel_values

\* a store of two threads without checkpoints, its checkpointer initialised
MemoryInit ==
    /\ NoTurn
    /\ store = [c \in Lineages |-> EmptyState]
    /\ recursion_limit = 25
    /\ pc = "idle"
    /\ compiled = TRUE
    /\ compiled_apps_cache = EmptyState
    /\ compiles = NoCompiles
    /\ _initialized = TRUE
    /\ connection_checks = 1
    /\ racers = <<>>
    /\ checkpoints = <<>>
    /\ mm_call = NoCall
    /\ reset_threads = {}
    /\ db = NoRows
    /\ db_call = NoCall
    /\ wt_call = NoCall

\* a graph run on the lineage checkpoints what it wrote
PutCheckpoint(configurable, w) ==
    /\ Len(checkpoints) < MaxCheckpoints
    /\ LET \* a checkpoint id no stored checkpoint has
           used == {checkpoints[i].checkpoint_id : i \in 1..Len(checkpoints)}
           free == (1..(Len(checkpoints) + 1)) \ used
           FreshId == CHOOSE i \in free : \A j \in free : i <= j
       IN  checkpoints' = Append(checkpoints,
               [config |-> configurable,
                checkpoint_id |-> FreshId,
                ts |-> w.ts,
                channel_values |-> w.channel_values,
                metadata |-> w.metadata])
    /\ reset_threads' = reset_threads \ {configurable.thread_id}
    /\ mm_call' = [op |-> "put", config |-> configurable]
    /\ store' = [c \in Lineages |-> LatestValues(checkpoints', c)]
    /\ UNCHANGED << recursion_limit, pc, compiled, cacheVars, ckptVars, racers,
                    db, db_call, wt_call, noTurnVars >>

\* MemoryManager.get_thread_state: everything raised inside the try, the
\* ValueError for a missing thread_id included, is logged and {} returned
GetThreadState(configurable, io_ok) ==
    /\ mm_call' =
           [op |-> "get_thread_state", config |-> configurable,
            io_ok |-> io_ok, outcome |-> "returned",
            result |->
                IF ~io_ok \/ ~HasThreadId(configurable)
                   \/ Lineage(checkpoints, configurable) = <<>>
                THEN Dict(EmptyState)
                ELSE _transform_constructor_items(
                         LatestValues(checkpoints, configurable))]
    /\ UNCHANGED << store, checkpoints, reset_threads >>
    /\ UNCHANGED << recursion_limit, pc, compiled, cacheVars, ckptVars, racers,
                    db, db_call, wt_call, noTurnVars >>

\* MemoryManager.reset_thread_state: the context, the thread_id test, the
\* delete; both failures leave the method as exceptions
ResetThreadState(configurable, io_ok) ==
    /\ IF io_ok /\ HasThreadId(configurable)
       THEN /\ checkpoints' =
                   adelete_thread(checkpoints, configurable["thread_id"])
            /\ reset_threads' = reset_threads \cup {configurable["thread_id"]}
            /\ mm_call' = [op |-> "reset_thread_state",
                           config |-> configurable, io_ok |-> io_ok,
                           outcome |-> "returned"]
       ELSE /\ mm_call' = [op |-> "reset_thread_state",
                           config |-> configurable, io_ok |-> io_ok,
                           outcome |-> "raised"]
            /\ UNCHANGED << checkpoints, reset_threads >>
    /\ store' = [c \in Lineages |-> LatestValues(checkpoints', c)]
    /\ UNCHANGED << recursion_limit, pc, compiled, cacheVars, ckptVars, racers,
                    db, db_call, wt_call, noTurnVars >>

\* MemoryManager.get_thread_checkpoints: the thread_id test is outside the
\* try; a failing store leaves the result as far as it was built
GetThreadCheckpoints(configurable, limit, io_ok) ==
    /\ mm_call' =
           IF ~HasThreadId(configurable)
           THEN [op |-> "get_thread_checkpoints", config |-> configurable,
                 limit |-> limit, io_ok |-> io_ok, outcome |-> "raised"]
           ELSE [op |-> "get_thread_checkpoints", config |-> configurable,
                 limit |-> limit, io_ok |-> io_ok, outcome |-> "returned",
                 result |->
                     IF ~io_ok THEN <<>>
                     ELSE LET found == alist(checkpoints, configurable)
                              count == IF limit < Len(found) THEN limit
                                       ELSE Len(found)
                              \* one CheckpointSummary
                              Summary(checkpoint) ==
                                  [checkpoint_id |-> checkpoint.checkpoint_id,
                                   thread_id |-> configurable["thread_id"],
                                   created_at |->
                                       _extract_created_at_from_checkpoint(
                                           checkpoint),
                                   metadata |->
                                       _transform_constructor_items(
                                           checkpoint.metadata)]
                          IN  [i \in 1..count |-> Summary(found[i])]]
    /\ UNCHANGED << store, checkpoints, reset_threads >>
    /\ UNCHANGED << recursion_limit, pc, compiled, cacheVars, ckptVars, racers,
                    db, db_call, wt_call, noTurnVars >>

MemoryNext ==
    \/ \E c \in Lineages, w \in StoredWrites : PutCheckpoint(c, w)
    \/ \E c \in CallerConfigs, io_ok \in BOOLEAN : GetThreadState(c, io_ok)
    \/ \E c \in CallerConfigs, io_ok \in BOOLEAN : ResetThreadState(c, io_ok)
    \/ \E c \in CallerConfigs, limit \in {0, 1, 3}, io_ok \in BOOLEAN :
           GetThreadCheckpoints(c, limit, io_ok)

MemorySpec == MemoryInit /\ [][MemoryNext]_vars

(* ----------------------- create_thread_config calls --------------------- *)
\* the function building its dict with the key always present
create_thread_config_at_AlwaysKeyed(t, checkpoint_ns, checkpoint_id) ==
    [thread_id |-> t, checkpoint_ns |-> checkpoint_ns,
     checkpoint_id |-> checkpoint_id]

\* MemoryManager.create_thread_config with its three parameters:
\* `if checkpoint_id:` adds the key for a non-empty id only
create_thread_config_at(t, checkpoint_ns, checkpoint_id) ==
    IF checkpoint_id # None /\ checkpoint_id # ""
    THEN [thread_id |-> t, checkpoint_ns |-> checkpoint_ns,
          checkpoint_id |-> checkpoint_id]
    ELSE create_thread_config(t, checkpoint_ns)

\* the checkpoint a config addresses: thread, namespace and either one
\* checkpoint or the latest of the lineage
Addressed(configurable) ==
    << configurable["thread_id"], configurable["checkpoint_ns"],
       IF Has(configurable, "checkpoint_id")
       THEN configurable["checkpoint_id"] ELSE None >>

\* a store holding one checkpoint, the checkpointer initialised
ConfigInit ==
    /\ NoTurn
    /\ store = [c \in Lineages |->
                   IF c = create_thread_config("t1", "")
                   THEN Encode(CHOOSE v \in TypedStates : TRUE)
                   ELSE EmptyState]
    /\ recursion_limit = 25
    /\ pc = "idle"
    /\ compiled = TRUE
    /\ compiled_apps_cache = EmptyState
    /\ compiles = NoCompiles
    /\ _initialized = TRUE
    /\ connection_checks = 1
    /\ racers = <<>>
    /\ checkpoints =
           << [config |-> create_thread_config("t1", ""),
               checkpoint_id |-> 1,
               ts |-> Str("2025-01-01T00:00:00Z"),
               channel_values |-> store[create_thread_config("t1", "")],
               metadata |-> Dict([source |-> Str("loop")])] >>
    /\ mm_call = NoCall
    /\ reset_threads = {}
    /\ db = NoRows
    /\ db_call = NoCall
    /\ wt_call = NoCall

\* one call of create_thread_config; the call before it is remembered
CreateThreadConfig(t, checkpoint_ns, checkpoint_id) ==
    /\ mm_call' =
           [op |-> "create_thread_config",
            args |-> << t, checkpoint_ns, checkpoint_id >>,
            config |-> create_thread_config_at(t, checkpoint_ns, checkpoint_id),
            before |-> IF mm_call.op = "create_thread_config"
                       THEN << [args |-> mm_call.args,
                                config |-> mm_call.config] >>
                       ELSE <<>>]
    /\ UNCHANGED << store, checkpoints, reset_threads >>
    /\ UNCHANGED << recursion_limit, pc, compiled, cacheVars, ckptVars, racers,
                    db, db_call, wt_call, noTurnVars >>

ConfigNext ==
    \E t \in {"t1", "t2"}, ns \in {"", "fallback"},
       id \in {None, "", "c1", "c2"} :
        CreateThreadConfig(t, ns, id)

ConfigSpec == ConfigInit /\ [][ConfigNext]_vars

(* ------------------- results storage and persistence ------------------- *)
\* values str(uuid.uuid4()) yields, in the order they are drawn
Uuids == << "u1", "u2", "u3", "u4", "u5", "u6" >>

\* primary keys in use
Ids(rows) == UNION {{r.id : r \in rows[t]} : t \in DOMAIN rows}

\* the k-th uuid4 drawn over these rows: a value no row has and no earlier
\* draw gave
uuid4(rows, k) ==
    LET free == SelectSeq(Uuids, LAMBDA u : u \notin Ids(rows))
    IN  free[k]

\* the foreign keys of transcription_processings
ForeignKeysHold(rows) ==
    \A p \in rows.transcription_processings :
        /\ p.transcription_id \in {"tr1", "tr2"}
        /\ p.analysis_id # None =>
               \E a \in rows.transcription_analyses : a.id = p.analysis_id
        /\ p.insights_id # None =>
               \E i \in rows.transcription_insights : i.id = p.insights_id

\* a rollback that keeps what was flushed
rollback_KeepFlushed(committed, flushed) == flushed

\* db.rollback(): the committed rows are what remains
rollback(committed, flushed) == committed

\* handle_persistence / RecordPersistence.get_record_changes on the rows the
\* session sees: the id looked up is record_id or a new uuid4; a row that is
\* not found is added from record_dict, which has no id, so its primary key
\* is the column default, another uuid4
handle_persistence(rows, table_model, record, record_id) ==
    LET id == IF record_id # None /\ record_id # "" THEN record_id
              ELSE uuid4(rows, 1)
        existing_record == {r \in rows[table_model] : r.id = id}
    IN  IF existing_record = {}
        THEN [rows |->
                  [rows EXCEPT ![table_model] =
                      @ \cup {record @@ [id |-> uuid4(rows, 2)]}],
              added |-> {uuid4(rows, 2)},
              changes |-> [operation |-> "create", id |-> id]]
        ELSE [rows |-> rows, added |-> {},
              changes |-> [operation |-> "update", id |-> id]]

\* the steps of the transaction of results_storage_node that can fail
StorageSteps ==
    << "begin", "processing", "analysis", "insights", "status", "commit" >>

\* db.flush(): the pending changes reach the database, which checks them
Flush(t) ==
    IF ForeignKeysHold(t.rows) THEN t
    ELSE [t EXCEPT !.error = "IntegrityError"]

\* the processing record of the transaction
ProcessingRecord(t) ==
    CHOOSE p \in t.rows.transcription_processings :
        p.transcription_id = t.transcription_id

\* `processing_record.<field> = value`
SetOnProcessing(t, field, value) ==
    [t EXCEPT !.rows.transcription_processings =
        (@ \ {ProcessingRecord(t)})
            \cup {[ProcessingRecord(t) EXCEPT ![field] = value]}]

\* one step of the transaction on what the session holds
StorageStep(step, t, record) ==
    CASE step = "begin" -> t
      [] step = "processing" ->
            IF \E p \in t.rows.transcription_processings :
                   p.transcription_id = t.transcription_id
            THEN t
            ELSE Flush([t EXCEPT !.rows.transcription_processings =
                     @ \cup {[id |-> uuid4(t.rows, 1),
                              transcription_id |-> t.transcription_id,
                              analysis_id |-> None, insights_id |-> None,
                              status |-> "pending"]}])
      [] step \in {"analysis", "insights"} ->
            LET table_model == IF step = "analysis"
                               THEN "transcription_analyses"
                               ELSE "transcription_insights"
                link == IF step = "analysis" THEN "analysis_id"
                        ELSE "insights_id"
                linked == ProcessingRecord(t)[link]
                hp == handle_persistence(t.rows, table_model,
                                         [data |-> record], linked)
                after == [t EXCEPT !.rows = hp.rows,
                                   !.added = @ \cup hp.added,
                                   !.returned = @ \cup {hp.changes.id}]
            IN  IF record = None THEN t
                ELSE IF linked # None THEN after
                ELSE LET flushed == Flush(after)
                     IN  IF flushed.error # None THEN flushed
                         ELSE SetOnProcessing(flushed, link, hp.changes.id)
      [] step = "status" -> Flush(SetOnProcessing(t, "status", "completed"))
      [] step = "commit" -> t

\* the transaction from step i on; `failing` is the step at which the
\* database or the connection fails by itself
RECURSIVE RunStorage(_, _, _, _, _)
RunStorage(i, t, failing, analysis, insights) ==
    IF i > Len(StorageSteps) THEN t
    ELSE IF StorageSteps[i] = failing
    THEN [t EXCEPT !.error = "OperationalError"]
    ELSE LET record == IF StorageSteps[i] = "analysis" THEN analysis
                       ELSE IF StorageSteps[i] = "insights" THEN insights
                       ELSE None
             next == StorageStep(StorageSteps[i], t, record)
         IN  IF next.error # None THEN next
             ELSE RunStorage(i + 1, next, failing, analysis, insights)

\* no database call yet, no rows
DbInit ==
    /\ NoTurn
    /\ store = [c \in ThreadConfigs |-> EmptyState]
    /\ recursion_limit = 25
    /\ pc = "idle"
    /\ compiled = TRUE
    /\ compiled_apps_cache = EmptyState
    /\ compiles = NoCompiles
    /\ _initialized = TRUE
    /\ connection_checks = 1
    /\ racers = <<>>
    /\ checkpoints = <<>>
    /\ mm_call = NoCall
    /\ reset_threads = {}
    /\ db = NoRows
    /\ db_call = NoCall
    /\ wt_call = NoCall

\* the route before it starts the agent: the processing row is created or
\* set to "processing" and committed; a row already "processing" or
\* "completed" is answered with 409
BeginProcessing(tr) ==
    /\ LET found == {p \in db.transcription_processings :
                        p.transcription_id = tr}
       IN  IF \E p \in found : p.status \in {"processing", "completed"}
           THEN /\ db_call' = [op |-> "process_transcription",
                               transcription_id |-> tr, status_code |-> 409]
                /\ UNCHANGED db
           ELSE /\ db' = [db EXCEPT !.transcription_processings =
                             (@ \ found) \cup
                             (IF found = {}
                              THEN {[id |-> uuid4(db, 1),
                                     transcription_id |-> tr,
                                     analysis_id |-> None,
                                     insights_id |-> None,
                                     status |-> "processing"]}
                              ELSE {[p EXCEPT !.status = "processing"] :
                                       p \in found})]
                /\ db_call' = [op |-> "process_transcription",
                               transcription_id |-> tr, status_code |-> 200]
    /\ UNCHANGED << store, recursion_limit, pc, compiled, cacheVars, ckptVars,
                    racers, checkpoints, mm_call, reset_threads, wt_call,
                    noTurnVars >>

\* results_storage_node inside its outer try: the transaction, then either
\* the commit or the rollback, and in both cases a trace message
StoreResults(tr, analysis, insights, failing) ==
    /\ LET t == RunStorage(1,
                    [rows |-> db, transcription_id |-> tr, error |-> None,
                     added |-> {}, returned |-> {}],
                    failing, analysis, insights)
       IN  /\ db' = IF t.error = None THEN t.rows ELSE rollback(db, t.rows)
           /\ db_call' =
                  [op |-> "results_storage_node", transcription_id |-> tr,
                   analysis |-> analysis, insights |-> insights,
                   failing |-> failing, before |-> db,
                   error |-> t.error, added |-> t.added,
                   returned |-> t.returned,
                   outcome |-> "returned",
                   messages |->
                       << SMessage("ProcessingResultsStorage",
                              IF t.error = None
                              THEN "Analysis results stored for transcription"
                              ELSE "Error storing analysis results") >>]
    /\ UNCHANGED << store, recursion_limit, pc, compiled, cacheVars, ckptVars,
                    racers, checkpoints, mm_call, reset_threads, wt_call,
                    noTurnVars >>

\* a caller's handle_persistence on its session; nothing is committed
HandlePersistence(table_model, record_id) ==
    /\ LET hp == handle_persistence(db, table_model, [data |-> "an1"],
                                    record_id)
       IN  db_call' = [op |-> "handle_persistence",
                       table_model |-> table_model,
                       record_id |-> record_id,
                       changes |-> hp.changes,
                       added |-> hp.added,
                       existed |-> record_id \in {r.id : r \in db[table_model]}]
    /\ UNCHANGED db
    /\ UNCHANGED << store, recursion_limit, pc, compiled, cacheVars, ckptVars,
                    racers, checkpoints, mm_call, reset_threads, wt_call,
                    noTurnVars >>

DbNext ==
    \/ \E tr \in {"tr1", "tr2"} : BeginProcessing(tr)
    \/ \E tr \in {"tr1", "tr2"}, analysis \in {None, "an1"},
          insights \in {None, "in1"},
          failing \in {StorageSteps[i] : i \in DOMAIN StorageSteps} \cup {None} :
           StoreResults(tr, analysis, insights, failing)
    \/ \E table_model \in DOMAIN NoRows,
          record_id \in {Uuids[i] : i \in 1..3} \cup {None, ""} :
           HandlePersistence(table_model, record_id)

DbSpec == DbInit /\ [][DbNext]_vars

(* ---------------------- WhisperTranscriptionTool ----------------------- *)
\* a file name is its sequence of characters
Named(stem, ext) == stem \o << "." >> \o ext

Stems == {<< "t", "e", "s", "t" >>, << "T", "E", "S", "T" >>}

\* file names callers pass; two of them have no extension to split off
Filenames ==
    LET \* extensions of the names, without the dot
        Extensions ==
            {<< "m", "p", "3" >>, << "w", "a", "v" >>, << "m", "4", "a" >>,
             << "m", "p", "4" >>, << "m", "o", "v" >>, << "a", "v", "i" >>,
             << "f", "l", "v" >>, << "w", "m", "v" >>, << "t", "x", "t" >>,
             << "p", "d", "f" >>, << "d", "o", "c" >>, << "x", "y", "z" >>,
             << "o", "g", "g" >>, << "M", "P", "3" >>, << "W", "a", "V" >>}
    IN  {Named(s, e) : s \in Stems, e \in Extensions}
            \cup {<< "t", "e", "s", "t" >>, << ".", "m", "p", "3" >>}

\* `os.path.splitext(filename.lower())[1]`
_get_file_extension(filename) ==
    LET \* str.lower() on the letters of Filenames
        to_lower == [c \in {"T", "E", "S", "M", "P", "W", "V"} |->
                        CASE c = "T" -> "t" [] c = "E" -> "e"
                          [] c = "S" -> "s" [] c = "M" -> "m"
                          [] c = "P" -> "p" [] c = "W" -> "w"
                          [] c = "V" -> "v"]
        lower(s) ==
            [i \in 1..Len(s) |->
                IF s[i] \in DOMAIN to_lower THEN to_lower[s[i]] ELSE s[i]]
        \* os.path.splitext(p)[1] for a name without directory: from the
        \* last dot on, unless only dots come before it
        splitext(p) ==
            LET dots == {i \in 1..Len(p) : p[i] = "."}
                dotIndex == CHOOSE i \in dots : \A j \in dots : j <= i
            IN  IF dots = {} \/ \A i \in 1..(dotIndex - 1) : p[i] = "."
                THEN <<>>
                ELSE SubSeq(p, dotIndex, Len(p))
    IN  splitext(lower(filename))

\* self.supported_formats
supported_formats ==
    {<< ".", "m", "p", "3" >>, << ".", "w", "a", "v" >>,
     << ".", "m", "4", "a" >>, << ".", "m", "p", "4" >>,
     << ".", "o", "p", "u", "s" >>, << ".", "o", "g", "g" >>,
     << ".", "f", "l", "a", "c" >>, << ".", "w", "e", "b", "m" >>}

_is_supported_format(filename) ==
    _get_file_extension(filename) \in supported_formats

\* WhisperTranscriptionTool.transcribe_audio: what it does to the media
\* service, the file system and the database, and how it ends
transcribe_audio(filename, upload_ok, transcribed, saved) ==
    IF ~_is_supported_format(filename)
    THEN [outcome |-> "raised", error |-> "ValueError", effects |-> <<>>]
    ELSE IF ~upload_ok
    THEN [outcome |-> "raised", error |-> "NyxenAPIException",
          effects |-> << "upload" >>]
    ELSE IF ~transcribed
    THEN [outcome |-> "raised", error |-> "Exception",
          effects |-> << "upload", "temp_file" >>]
    ELSE IF ~saved
    THEN [outcome |-> "raised", error |-> "Exception",
          effects |-> << "upload", "temp_file", "database" >>]
    ELSE [outcome |-> "returned", error |-> None,
          effects |-> << "upload", "temp_file", "database" >>]

WhisperInit ==
    /\ NoTurn
    /\ store = [c \in ThreadConfigs |-> EmptyState]
    /\ recursion_limit = 25
    /\ pc = "idle"
    /\ compiled = TRUE
    /\ compiled_apps_cache = EmptyState
    /\ compiles = NoCompiles
    /\ _initialized = TRUE
    /\ connection_checks = 1
    /\ racers = <<>>
    /\ checkpoints = <<>>
    /\ mm_call = NoCall
    /\ reset_threads = {}
    /\ db = NoRows
    /\ db_call = NoCall
    /\ wt_call = NoCall

IsSupportedFormat(filename) ==
    /\ wt_call' = [op |-> "_is_supported_format", filename |-> filename,
                   result |-> _is_supported_format(filename)]
    /\ UNCHANGED << store, recursion_limit, pc, compiled, cacheVars, ckptVars,
                    racers, checkpoints, mm_call, reset_threads, db, db_call,
                    noTurnVars >>

TranscribeAudio(filename, upload_ok, transcribed, saved) ==
    /\ wt_call' =
           [op |-> "transcribe_audio", filename |-> filename] @@
               transcribe_audio(filename, upload_ok, transcribed, saved)
    /\ UNCHANGED << store, recursion_limit, pc, compiled, cacheVars, ckptVars,
                    racers, checkpoints, mm_call, reset_threads, db, db_call,
                    noTurnVars >>

\* transcribe_audio_tool: the tool is built, and its model loaded, before
\* the try; what transcribe_audio raises becomes an error message
TranscribeAudioTool(filename, loaded, upload_ok, transcribed, saved) ==
    /\ LET r == transcribe_audio(filename, upload_ok, transcribed, saved)
       IN  wt_call' =
               IF ~loaded
               THEN [op |-> "transcribe_audio_tool", filename |-> filename,
                     outcome |-> "raised", effects |-> <<>>,
                     update |-> EmptyState]
               ELSE [op |-> "transcribe_audio_tool", filename |-> filename,
                     outcome |-> "returned", effects |-> r.effects,
                     update |->
                         IF r.outcome = "returned"
                         THEN [messages |-> << "transcription" >>,
                               transcription_result |-> filename]
                         ELSE [messages |->
                                   << << "Audio transcription failed: ",
                                         r.error >> >>,
                               transcription_error |-> r.error]]
    /\ UNCHANGED << store, recursion_limit, pc, compiled, cacheVars, ckptVars,
                    racers, checkpoints, mm_call, reset_threads, db, db_call,
                    noTurnVars >>

WhisperNext ==
    \/ \E filename \in Filenames : IsSupportedFormat(filename)
    \/ \E filename \in Filenames, upload_ok, transcribed, saved \in BOOLEAN :
           TranscribeAudio(filename, upload_ok, transcribed, saved)
    \/ \E filename \in Filenames,
          loaded, upload_ok, transcribed, saved \in BOOLEAN :
           TranscribeAudioTool(filename, loaded, upload_ok, transcribed, saved)

WhisperSpec == WhisperInit /\ [][WhisperNext]_vars

(* -------------------- concurrent process_message calls ----------------- *)
RaceInputs == << "hello", "again" >>

\* the thread was never seen; both calls are about to read its state
RaceInit ==
    /\ NoTurn
    /\ store = [c \in ThreadConfigs |-> EmptyState]
    /\ recursion_limit = 25
    /\ pc = "idle"
    /\ compiled = TRUE
    /\ compiled_apps_cache = EmptyState
    /\ compiles = NoCompiles
    /\ _initialized = TRUE
    /\ connection_checks = 1
    /\ racers = [c \in {1, 2} |->
                    [pc |-> "pm_try", is_new_thread |-> FALSE,
                     initial_state |-> EmptyState, state |-> EmptyState,
                     steps |-> 0]]
    /\ checkpoints = <<>>
    /\ mm_call = NoCall
    /\ reset_threads = {}
    /\ db = NoRows
    /\ db_call = NoCall
    /\ wt_call = NoCall

\* get_thread_state and _prepare_initial_state of caller c; the read succeeds
RaceResolveThread(c) ==
    /\ racers[c].pc = "pm_try"
    /\ LET found == get_thread_state("t1", TRUE)
       IN  racers' = [racers EXCEPT ![c] =
               [@ EXCEPT !.pc = "graph_enter",
                         !.is_new_thread = ~Truthy(found),
                         !.initial_state = _prepare_initial_state(
                             "t1", RaceInputs[c], transcription_data,
                             ~Truthy(found))]]
    /\ UNCHANGED store
    /\ UNCHANGED << recursion_limit, pc, compiled, cacheVars, ckptVars,
                    checkpoints, mm_call, reset_threads, db, db_call, wt_call,
                    noTurnVars >>

\* ainvoke of caller c loads the latest checkpoint of the thread, merges its
\* input into it and checkpoints the result
RaceEnterGraph(c) ==
    /\ racers[c].pc = "graph_enter"
    /\ LET s == ApplyUpdate(store[thread_config("t1")],
                            racers[c].initial_state, StateChannels)
       IN  /\ racers' = [racers EXCEPT ![c] =
                   [@ EXCEPT !.pc = "graph", !.state = s]]
           /\ store' = [store EXCEPT ![thread_config("t1")] = s]
    /\ UNCHANGED << recursion_limit, pc, compiled, cacheVars, ckptVars,
                    checkpoints, mm_call, reset_threads, db, db_call, wt_call,
                    noTurnVars >>

\* a superstep of caller c's run: the node's update is merged into the
\* channels that run holds and written as the thread's latest checkpoint
RaceSuperstep(c) ==
    /\ racers[c].pc = "graph"
    /\ LET i == racers[c].steps + 1
           \* what the node at position i of the path returns
           RaceOutput ==
               CASE i = 1 -> intent_seeker_node("greet", "inquiry")
                 [] i = 2 -> manager_node(<<>>)
                 [] i = 3 -> touchpoint_node("answer")
           s == ApplyUpdate(racers[c].state, RaceOutput, StateChannels)
       IN  /\ racers' = [racers EXCEPT ![c] =
                   [@ EXCEPT !.state = s, !.steps = i,
                             \* intent_seeker, manager, touchpoint
                             !.pc = IF i = 3 THEN "done" ELSE "graph"]]
           /\ store' = [store EXCEPT ![thread_config("t1")] = s]
    /\ UNCHANGED << recursion_limit, pc, compiled, cacheVars, ckptVars,
                    checkpoints, mm_call, reset_threads, db, db_call, wt_call,
                    noTurnVars >>

RaceNext ==
    \E c \in {1, 2} :
        \/ RaceResolveThread(c)
        \/ RaceEnterGraph(c)
        \/ RaceSuperstep(c)

RaceSpec == RaceInit /\ [][RaceNext]_vars

(* =============================== claims ================================ *)
\* the call that just finished was a conversational turn
MessageCallDone == pc = "done" /\ call_kind = "process_message"

\* C1: if the default workflow raised at any point of process_message
\* (an exception reaching the handler, or the recursion-limit error), the
\* reply returned to the caller has fallback_used = true and a non-empty
\* response.
C1_FallbackInvariant ==
    (MessageCallDone /\ outcome = "reply" /\ (main_raised \/ recursion_hit))
        => (reply.fallback_used /\ reply.response # "")

\* C2: process_message never raises to its caller: whatever fails (thread
\* lookup, memory initialisation, the default graph, the fallback workflow)
\* the call ends with a reply.
C2_AlwaysReplies == MessageCallDone => outcome = "reply"

\* C3: within one top-level process_message call the fallback workflow is
\* executed at most once.
C3_FallbackAtMostOnce == call_kind = "process_message" => fallback_runs <= 1

\* C4: the default graph is executed at most once per top-level
\* process_message call, and never by the pass flagged fallback_used.
C4_DefaultGraphAtMostOnce ==
    call_kind = "process_message" =>
        /\ default_runs <= 1
        /\ (fallback_used => pc \notin {"graph_enter", "graph"})

\* C4 witness: a flagged pass shaped the reply after the fallback workflow ran.
C4_Witness ==
    /\ MessageCallDone /\ outcome = "reply" /\ reply.fallback_used
    /\ default_runs = 1 /\ fallback_runs = 1 /\ depth = 1

\* C5: when the default graph exceeds the recursion limit, process_message
\* returns a reply, and that reply is the fallback workflow's answer to a
\* context holding the RecursionFallback seed message.
C5_RecursionLimitReply ==
    (MessageCallDone /\ recursion_hit) =>
        /\ outcome = "reply"
        /\ \E i \in 1..Len(tp_context) : tp_context[i] = "RecursionFallback"
        /\ reply.response =
               Last(store[thread_config(thread_id)]["chat_history"]).content

\* C6: the reply returned after a recursion-limit breach is marked
\* fallback-derived.
C6_RecursionReplyMarked ==
    (MessageCallDone /\ recursion_hit /\ outcome = "reply")
        => reply.fallback_used

\* C7: for a thread with no checkpoint get_thread_state returns the empty
\* state, process_message treats the thread as new, and the default graph
\* starts from the fresh initial state: chat_history holds only the new user
\* message, trace, task and data lists are empty, next is intent_seeker.
C7_NewThreadSeeded ==
    /\ (pc = "graph_enter" /\ ~had_checkpoint) =>
          /\ lookup_result = EmptyState
          /\ is_new_thread
          /\ initial_state["chat_history"] = << HMessage("Human", user_input) >>
          /\ initial_state["messages"] = <<>>
          /\ initial_state["current_tasks"] = <<>>
          /\ initial_state["data_for_the_task"] = <<>>
          /\ initial_state["next"] = "intent_seeker"
    /\ (pc = "graph" /\ steps = 0 /\ ~had_checkpoint) =>
          /\ node = "intent_seeker"
          /\ state["thread_id"] = thread_id
          /\ state["chat_history"] = << HMessage("Human", user_input) >>
          /\ state["messages"] = <<>>
          /\ state["data_for_the_task"] = <<>>
          /\ state["next"] = "intent_seeker"
          /\ NodeView(state, StateChannels)["unhandled_tasks"] = <<>>
          /\ store[thread_config(thread_id)] = state

\* C7 witness: the default graph has just started on a thread that had no
\* checkpoint.
C7_Witness ==
    /\ pc = "graph" /\ steps = 0 /\ ~had_checkpoint /\ is_new_thread
    /\ call_kind = "process_message"

\* C8: for a thread that already has stored state the graph input is the
\* minimal delta: once the run has started chat_history has grown by exactly
\* the new user message and every field the delta does not name keeps its
\* checkpointed value.
C8_ExistingThreadDelta ==
    (pc = "graph" /\ steps = 0 /\ had_checkpoint) =>
        /\ DOMAIN initial_state =
               {"chat_history", "unhandled_tasks", "data_for_the_task"}
        /\ state["chat_history"] =
               Get(pre_state, "chat_history", <<>>) \o
                   << HMessage("Human", user_input) >>
        /\ \A k \in DOMAIN pre_state \ DOMAIN initial_state :
               state[k] = pre_state[k]

\* C9: the reply's response is the content of the last message of the final
\* state's chat_history and message_count is the length of that chat_history.
C9_ReplyIsLastMessage ==
    (MessageCallDone /\ outcome = "reply") =>
        /\ state["chat_history"] =
               store[thread_config(thread_id)]["chat_history"]
        /\ reply.response = Last(state["chat_history"]).content
        /\ reply.message_count = Len(state["chat_history"])

\* C9 witness: a turn that succeeded without any fallback, answering a
\* history of at least two messages.
C9_Witness ==
    /\ MessageCallDone /\ outcome = "reply"
    /\ ~main_raised /\ ~recursion_hit /\ ~reply.fallback_used
    /\ reply.message_count >= 2
    /\ reply.response = "answer"

C11_StageFailureDoesNotAbort ==
    /\ ~stage_raised
    /\ (pc = "done" /\ call_kind = "process_transcription"
           /\ outcome = "result") =>
          /\ ("ProcessingTranscriptionAnalyzer" \in failed_stages
                 => p_result.analysis = None)
          /\ ("ProcessingInsightExtractor" \in failed_stages
                 => p_result.insights = None)
          /\ ("ProcessingInsightExtractor" \in failed_stages
              /\ "ProcessingTranscriptionAnalyzer" \notin failed_stages)
                 => /\ p_result.status = "partial"
                    /\ p_result.analysis # None
                    /\ p_result.insights = None

\* names of the trace messages a state holds
TraceNames(s) ==
    IF Has(s, "messages")
    THEN {s["messages"][i].name : i \in 1..Len(s["messages"])}
    ELSE {}

RECURSIVE Written(_, _)
Written(outs, k) ==
    IF outs = <<>> THEN <<>>
    ELSE Written(SubSeq(outs, 1, Len(outs) - 1), k) \o Get(Last(outs), k, <<>>)

\* C13: for the append fields chat_history and messages the value held by
\* the thread is the value it had before the call followed by everything
\* the inputs and node outputs of the call wrote to the field, in the order
\* written, however many nodes in between wrote nothing to it.
C13_AppendLaw ==
    call_kind = "process_message" =>
        \A k \in AppendFields :
            NodeView(store[thread_config(thread_id)], StateChannels)[k] =
                NodeView(pre_state, StateChannels)[k] \o Written(outputs, k)

\* C13 witness: a second turn answered by the default graph: two outputs
\* for chat_history with the outputs of intent_seeker and manager between
\* them, on top of the history of the first turn.
C13_Witness ==
    /\ MessageCallDone /\ outcome = "reply" /\ ~main_raised /\ ~recursion_hit
    /\ Len(NodeView(pre_state, StateChannels)["chat_history"]) >= 2
    /\ Len(outputs) = 4
    /\ Written(outputs, "chat_history") =
           << HMessage("Human", user_input),
              SMessage("Touchpoint", reply.response) >>

RECURSIVE Writes(_, _)
Writes(outs, k) ==
    IF outs = <<>> THEN <<>>
    ELSE LET before == Writes(SubSeq(outs, 1, Len(outs) - 1), k)
         IN  IF Has(Last(outs), k) THEN Append(before, Last(outs)[k])
             ELSE before

\* C14: for a reset-on-empty field, an update returning [] empties the
\* field whatever it held, an update returning [c] right after that leaves
\* exactly [c], and a non-empty update is appended to the current value in
\* order; an update that does not name the field leaves it alone.
C14_ResetOnEmptyLaw ==
    /\ [](\A k \in ResetFields \cap DOMAIN state :
            LET w == Writes(outputs, k)
                n == Len(w)
            IN  /\ (n >= 1 /\ w[n] = <<>>) => state[k] = <<>>
                /\ (n >= 2 /\ w[n - 1] = <<>>) => state[k] = w[n])
    /\ [][(pc = "merge" /\ Len(outputs') = Len(outputs) + 1) =>
            LET upd == Last(outputs')
            IN  \A k \in ResetFields \cap DOMAIN state :
                    /\ (Has(upd, k) /\ upd[k] # <<>>)
                           => state'[k] = state[k] \o upd[k]
                    /\ ~Has(upd, k) => state'[k] = state[k]]_vars

\* C14 witness: the field held [a, b], a node returned [] and a later node
\* returned [c]: the field is [c].
C14_Witness ==
    /\ pc = "merge"
    /\ pre_state["unhandled_tasks"] = << "a", "b" >>
    /\ Writes(outputs, "unhandled_tasks") = << <<>>, << "c" >> >>
    /\ state["unhandled_tasks"] = << "c" >>

C17_GreetingSkipsPlanning ==
    ((/\ MessageCallDone /\ outcome = "reply"
      /\ default_runs = 1 /\ ~main_raised /\ ~recursion_hit) /\ is_new_thread
        /\ state["current_intention"] = "greet")
        => trace = << "intent_seeker", "touchpoint" >>

C20_CompiledOncePerProcess ==
    /\ compiles["default"] <= 1
    /\ compiles["fallback"] <= 1

\* C21: concurrent first-time calls of _get_or_create_compiled_app for the
\* same key race benignly: each caller that stores makes its own app the
\* cached one (the last write wins), the cache never holds another key and
\* never loses one, and every caller whose checkpointer context opened
\* returns with a compiled app, the one cached when it returned.
C21_BenignRace ==
    /\ [](/\ DOMAIN compiled_apps_cache \subseteq {"default"}
          /\ \A c \in Callers :
                 /\ racers[c].pc \in {"exit", "done"}
                        => DOMAIN compiled_apps_cache = {"default"}
                 /\ racers[c].pc = "done" => racers[c].result \in Callers)
    /\ [][/\ DOMAIN compiled_apps_cache \subseteq DOMAIN compiled_apps_cache'
          /\ \A c \in Callers :
                 /\ (racers[c].pc = "compile" /\ racers'[c].pc = "exit")
                        => compiled_apps_cache'["default"] = c
                 /\ (racers[c].pc # "done" /\ racers'[c].pc = "done")
                        => racers'[c].result = compiled_apps_cache["default"]
         ]_vars

\* C21 witness: two callers both compiled; the first of them returned after
\* the second had stored and received the second's app.
C21_Witness ==
    /\ compiles["prewarm"] >= 2
    /\ \E c, d \in Callers :
           /\ c # d
           /\ racers[c].pc = "done" /\ racers[c].result = d
           /\ racers[d].pc = "done" /\ racers[d].result = d
           /\ compiled_apps_cache["default"] = d

\* the store is initialised and the default workflow pre-compiled
StartupDone ==
    /\ _initialized
    /\ compiled
    /\ "default" \in DOMAIN compiled_apps_cache

\* C22: startup is lazy and idempotent: nothing is checked or compiled
\* before the first use, a first use that succeeds leaves the store
\* initialised and the default workflow pre-compiled, and once that is so no
\* process_message, initialize_memory or get_checkpointer call checks the
\* store connection or pre-compiles again.
C22_StartupLazyIdempotent ==
    /\ [](/\ compiled => _initialized
          /\ ~_initialized => (compiles["prewarm"] = 0 /\ ~compiled)
          /\ connection_checks = 0 => ~_initialized)
    /\ [][/\ (~compiled /\ compiled' /\ pc' = "pm_try") => StartupDone'
          /\ StartupDone =>
                 /\ StartupDone'
                 /\ connection_checks' = connection_checks
                 /\ compiles'["prewarm"] = compiles["prewarm"]]_vars

\* C22 witness: after a first turn that initialised the store, pre-compiled
\* and ran the default graph, a second process_message call has passed its
\* initialisation test: still one connection check and one pre-compilation.
C22_Witness ==
    /\ call_kind = "process_message" /\ pc = "pm_try" /\ turns = 2
    /\ StartupDone
    /\ connection_checks = 1
    /\ compiles["prewarm"] = 1
    /\ compiles["default"] = 2

\* C23: when process_message catches an exception, the state the fallback
\* workflow starts from is the captured state with the seed message
\* injected: the last full state the default run produced if it produced
\* one, otherwise the initial state that was about to be processed (which
\* holds the new user message), otherwise the empty state.
C23_FallbackStateCaptured ==
    [][(pc = "fb_enter" /\ pc' = "fb_node") =>
          LET captured == IF default_runs >= 1 THEN state ELSE initial_state
          IN  state' = ApplyUpdate(captured, [messages |-> << fb_message >>],
                                   StateChannels)]_vars

\* C24: the fallback workflow runs on the thread config of the main run
\* (same thread_id, same checkpoint namespace): it starts from the
\* checkpoint the main run left plus the seed message, its single touchpoint
\* node is followed by END, and what it writes extends that same lineage.
C24_FallbackSharesLineage ==
    [][LET main == thread_config(thread_id)
       IN  /\ (pc = "fb_enter" /\ pc' = "fb_node") =>
                  /\ fallback_thread_config(thread_id) = main
                  /\ state' = ApplyUpdate(store[main],
                                          [messages |-> << fb_message >>],
                                          StateChannels)
                  /\ store'[main] = state'
           /\ pc = "fb_node" =>
                  /\ pc' # "fb_node"
                  /\ fallback_runs' = fallback_runs
                  /\ pc' \in {"pm_reply", "pm_init"} =>
                         /\ Last(outputs') \in
                                {touchpoint_node(a) : a \in {"", "answer"}}
                         /\ store'[main] = ApplyUpdate(store[main],
                                               Last(outputs'), StateChannels)
      ]_vars

\* C24 witness: the default run raised after it had checkpointed the turn,
\* the fallback run answered on top of that checkpoint and the flagged pass
\* is about to shape the reply from it.
C24_Witness ==
    /\ call_kind = "process_message" /\ pc = "pm_init" /\ depth = 1
    /\ default_runs = 1 /\ fallback_runs = 1 /\ main_raised
    /\ fallback_state = store[thread_config(thread_id)]
    /\ Len(fallback_state["chat_history"]) >= 2
    /\ fallback_state["chat_history"][1] = HMessage("Human", user_input)
    /\ fallback_state["messages"] = << GeneralFallback >>

\* C25: after reset_thread_state for a thread, get_thread_state for that
\* thread returns an empty state again, in every checkpoint namespace of the
\* thread and whatever was checkpointed before, and the reset leaves the
\* checkpoints of every other thread as they were.
C25_ResetEmptiesThread ==
    /\ [](mm_call.op = "get_thread_state" /\ HasThreadId(mm_call.config)
          /\ mm_call.config["thread_id"] \in reset_threads
             => mm_call.result = Dict(EmptyState))
    /\ [][(mm_call'.op = "reset_thread_state"
           /\ mm_call'.outcome = "returned") =>
             LET t == mm_call'.config["thread_id"]
             IN  /\ \A c \in Lineages :
                       c.thread_id = t => Lineage(checkpoints', c) = <<>>
                 /\ \A c \in Lineages :
                       c.thread_id # t =>
                           Lineage(checkpoints', c) = Lineage(checkpoints, c)]_vars

\* C25 witness: t1 was checkpointed, t2 was checkpointed after it, t1 was
\* reset, and a read of the "fallback" namespace of t1 came back empty while
\* the checkpoint of t2 is still stored.
C25_Witness ==
    /\ mm_call.op = "get_thread_state"
    /\ mm_call.io_ok
    /\ mm_call.config = create_thread_config("t1", "fallback")
    /\ "t1" \in reset_threads
    /\ mm_call.result = Dict(EmptyState)
    /\ Len(checkpoints) = 1
    /\ checkpoints[1].config.thread_id = "t2"
    /\ checkpoints[1].checkpoint_id = 2

\* C26: reset_thread_state called with a config whose thread_id is missing
\* or empty raises and deletes no checkpoint of any thread.
C26_ResetWithoutThreadIdRaises ==
    [][(mm_call'.op = "reset_thread_state"
        /\ ("thread_id" \notin DOMAIN mm_call'.config
            \/ mm_call'.config["thread_id"] = ""))
          => /\ mm_call'.outcome = "raised"
             /\ checkpoints' = checkpoints]_vars

\* C26 witness: a reset with an empty thread_id raised although the store
\* answered, and the stored checkpoints are still there.
C26_Witness ==
    /\ mm_call.op = "reset_thread_state"
    /\ mm_call.config = create_thread_config("", "")
    /\ mm_call.io_ok
    /\ mm_call.outcome = "raised"
    /\ Len(checkpoints) = MaxCheckpoints

\* C27: get_thread_state and get_thread_checkpoints called with a config
\* lacking thread_id raise to the caller rather than returning an empty state
\* or an empty list, also when the store itself answers.
C27_MissingThreadIdRaises ==
    (mm_call.op \in {"get_thread_state", "get_thread_checkpoints"}
     /\ mm_call.io_ok /\ ~HasThreadId(mm_call.config))
        => mm_call.outcome = "raised"

\* C28: get_thread_checkpoints(config, limit) on a lineage of n checkpoints
\* returns min(limit, n) summaries, the most recent ones most recent first,
\* each with the thread_id of the config; created_at is the parsed timestamp,
\* and absent when the timestamp does not parse.
C28_CheckpointListing ==
    (mm_call.op = "get_thread_checkpoints" /\ HasThreadId(mm_call.config)
     /\ mm_call.io_ok)
        => LET lin == Lineage(checkpoints, mm_call.config)
               n == Len(lin)
               r == mm_call.result
           IN  /\ mm_call.outcome = "returned"
               /\ Len(r) = IF mm_call.limit < n THEN mm_call.limit ELSE n
               /\ \A i \in 1..Len(r) :
                     /\ r[i].checkpoint_id = lin[n - i + 1].checkpoint_id
                     /\ r[i].thread_id = mm_call.config["thread_id"]
                     /\ r[i].created_at =
                            IF lin[n - i + 1].ts = Str("2025-01-01T00:00:00Z")
                            THEN [datetime |-> << 2025, 1, 1, 0, 0, 0 >>,
                                  utcoffset |-> 0]
                            ELSE Null

\* C28 witness: a listing with limit 1 of a lineage of two checkpoints
\* returned the later one alone, whose timestamp does not parse, while the
\* earlier one has a timestamp that parses.
C28_Witness ==
    /\ mm_call.op = "get_thread_checkpoints"
    /\ mm_call.io_ok
    /\ mm_call.limit = 1
    /\ mm_call.config = create_thread_config("t1", "")
    /\ Len(Lineage(checkpoints, mm_call.config)) = 2
    /\ checkpoints[1].ts = Str("2025-01-01T00:00:00Z")
    /\ checkpoints[2].ts = Str("yesterday")
    /\ Len(mm_call.result) = 1
    /\ mm_call.result[1].checkpoint_id = checkpoints[2].checkpoint_id
    /\ mm_call.result[1].created_at = Null

\* C29: a typed state stored as its structural encoding and read back through
\* get_thread_state equals the original value field for field, with instances
\* nested in lists, in dicts and in the attributes of other instances.
C29_RoundTrip ==
    (mm_call.op = "get_thread_state" /\ HasThreadId(mm_call.config)
     /\ mm_call.io_ok)
        => \A v \in TypedStates :
               LatestValues(checkpoints, mm_call.config) = Encode(v)
                   => mm_call.result = v

\* C29 witness: the state read back holds a message in a list, a message in
\* a dict and a ProcessedMessage whose performance attribute is an instance.
C29_Witness ==
    /\ mm_call.op = "get_thread_state"
    /\ mm_call.io_ok
    /\ HasThreadId(mm_call.config)
    /\ LatestValues(checkpoints, mm_call.config) # EmptyState
    /\ mm_call.result \in TypedStates
    /\ "extracted_insights" \in DOMAIN mm_call.result.dict
    /\ mm_call.result.dict["extracted_insights"].attrs["performance"] =
           Object("MessagePerformance", [total_time |-> Str("0.10s")])
    /\ mm_call.result.dict["transcription_data"].dict["last"] = Answer
    /\ mm_call.result.dict["chat_history"].list[1] = Hello

\* C30: reading a state that holds envelopes which cannot be built (unknown
\* module, unknown class, type path too short, construction method missing,
\* constructor raising) returns, with each such envelope as it was stored and
\* the other values of the state rehydrated.
C30_UnresolvedDegrades ==
    (mm_call.op = "get_thread_state" /\ HasThreadId(mm_call.config)
     /\ mm_call.io_ok
     /\ LatestValues(checkpoints, mm_call.config) = DegradedState)
        => /\ mm_call.outcome = "returned"
           /\ mm_call.result =
                  Dict([chat_history |->
                            List(<< Hello, UnresolvedEnvelopes.unknown_class >>),
                        transcription_data |-> Dict(UnresolvedEnvelopes),
                        extracted_insights |-> Reply])

\* C30 witness: such a state was read: the five envelopes came back as
\* stored and the message beside them came back as an HMessage.
C30_Witness ==
    /\ mm_call.op = "get_thread_state"
    /\ mm_call.io_ok
    /\ HasThreadId(mm_call.config)
    /\ LatestValues(checkpoints, mm_call.config) = DegradedState
    /\ mm_call.outcome = "returned"
    /\ \A k \in DOMAIN UnresolvedEnvelopes :
           mm_call.result.dict["transcription_data"].dict[k] =
               UnresolvedEnvelopes[k]
    /\ mm_call.result.dict["chat_history"].list[1] = Hello

C32_AtomicRollback ==
    /\ ForeignKeysHold(db)
    /\ (db_call.op = "results_storage_node" /\ db_call.error # None) =>
           /\ db = db_call.before
           /\ db_call.outcome = "returned"
           /\ Len(db_call.messages) = 1
           /\ db_call.messages[1].content = "Error storing analysis results"

\* C32 witness: the transaction had created the processing row and added an
\* analysis row when a later step failed; none of them is in the database.
C32_Witness ==
    /\ db_call.op = "results_storage_node"
    /\ db_call.error # None
    /\ db_call.added # {}
    /\ db_call.before.transcription_processings = {}
    /\ db = db_call.before
    /\ db_call.outcome = "returned"

\* C40: when handle_persistence creates a record that did not exist, the row
\* it adds has the primary key it returns as id, so the analysis and insights
\* ids results_storage_node takes from it are keys of rows its session
\* holds; when the record exists, the id passed in is returned.
C40_ReturnedIdIsRowKey ==
    /\ db_call.op = "handle_persistence" =>
           IF db_call.existed
           THEN /\ db_call.changes.id = db_call.record_id
                /\ db_call.added = {}
           ELSE db_call.added = {db_call.changes.id}
    /\ db_call.op = "results_storage_node" =>
           db_call.returned \subseteq db_call.added \cup Ids(db_call.before)

\* C33: _is_supported_format accepts names ending in .mp3, .wav, .m4a, .mp4,
\* .mov, .avi, .flv and .wmv, in any letter case, and rejects names ending
\* in .txt, .pdf, .doc and .xyz.
C33_FormatValidation ==
    wt_call.op = "_is_supported_format" =>
        LET accepted == {<< "m", "p", "3" >>, << "w", "a", "v" >>,
                         << "m", "4", "a" >>, << "m", "p", "4" >>,
                         << "m", "o", "v" >>, << "a", "v", "i" >>,
                         << "f", "l", "v" >>, << "w", "m", "v" >>,
                         << "M", "P", "3" >>, << "W", "a", "V" >>}
            rejected == {<< "t", "x", "t" >>, << "p", "d", "f" >>,
                         << "d", "o", "c" >>, << "x", "y", "z" >>}
        IN  /\ \A s \in Stems, e \in accepted :
                   wt_call.filename = Named(s, e) => wt_call.result
            /\ \A s \in Stems, e \in rejected :
                   wt_call.filename = Named(s, e) => ~wt_call.result

\* C34: transcribe_audio ends an unsupported file name with a ValueError
\* before it uploads, writes a temporary file or touches the database;
\* transcribe_audio_tool always returns, and when the transcription failed
\* its update is one message saying so plus transcription_error, without
\* transcription_result.
C34_ErrorHandling ==
    /\ (wt_call.op = "transcribe_audio"
        /\ ~_is_supported_format(wt_call.filename)) =>
           /\ wt_call.outcome = "raised"
           /\ wt_call.error = "ValueError"
           /\ wt_call.effects = <<>>
    /\ wt_call.op = "transcribe_audio_tool" =>
           /\ wt_call.outcome = "returned"
           /\ Has(wt_call.update, "transcription_error") =>
                  /\ DOMAIN wt_call.update =
                         {"messages", "transcription_error"}
                  /\ Len(wt_call.update["messages"]) = 1
                  /\ wt_call.update["messages"][1][1] =
                         "Audio transcription failed: "
           /\ (Has(wt_call.update, "transcription_error")
               \/ Has(wt_call.update, "transcription_result"))

\* C35: a thread that has a stored checkpoint is never treated as new by
\* process_message, whatever happens to the read of its state: the run is
\* not fed the fresh initial state.
C35_StoredThreadNeverNew ==
    (call_kind = "process_message" /\ had_checkpoint) =>
        /\ ~is_new_thread
        /\ pc = "graph_enter" =>
               initial_state # get_initial_state(thread_id, user_input,
                                                 transcription_data)

\* C36: process_transcription on a thread without stored state feeds the
\* pipeline the full initial state of ProcessingWorkflow.get_initial_state,
\* so the running state holds transcription_id and transcription_data when
\* the stages read them.
C36_ProcessingSeedsNewThread ==
    (call_kind = "process_transcription" /\ ~had_checkpoint) =>
        /\ pc = "pt_enter" =>
               initial_state = processing_initial_state(
                   thread_id, transcription_id, transcription_data.data)
        /\ pc = "pt_graph" =>
               /\ Has(p_state, "transcription_id")
               /\ Has(p_state, "transcription_data")

\* C37: no step of a background transcription run changes what
\* get_thread_state returns for the conversational flow of the same thread,
\* so the conversational turn that follows it still finds a new thread.
C37_IndependentLineages ==
    [][(call_kind = "process_transcription"
        /\ call_kind' = "process_transcription" /\ thread_id' = thread_id)
          => store'[thread_config(thread_id)] =
                 store[thread_config(thread_id)]]_vars

C38_InterleavedCallsKeepBoth ==
    /\ \A c, d \in {1, 2} :
           (racers[c].is_new_thread /\ racers[d].is_new_thread) => c = d
    /\ (\A c \in {1, 2} : racers[c].pc = "done") =>
           \A c \in {1, 2} :
               \E i \in 1..Len(store[thread_config("t1")]["chat_history"]) :
                   store[thread_config("t1")]["chat_history"][i] =
                       HMessage("Human", RaceInputs[c])

====
